---- MODULE Spec2Model ----
(***************************************************************************)
(* A model of scrywarden: the investigation coordination over the shared   *)
(* store (scrywarden/investigator/base.py, scrywarden/profile/collectors.py *)
(* and the schema of scrywarden/database.py), the pipeline coordinator     *)
(* with its timer and transports (scrywarden/pipline/base.py,              *)
(* scrywarden/transport/base.py), and the curator with its shippers        *)
(* (scrywarden/curator/base.py, scrywarden/shipper/base.py).               *)
(*                                                                         *)
(* Time is counted in whole seconds.  Events are persisted by the pipeline *)
(* process with the current time as created_at, which is the assumption    *)
(* TimeRangeCollector._wait makes when it waits for the end of a window.   *)
(***************************************************************************)
EXTENDS Integers, Sequences, FiniteSets, TLC

\* ------------------------------------------------------------------------
\* Bounds and program constants
\* ------------------------------------------------------------------------

\* Last second of the modelled clock.
MaxTime == 4

\* TimeRangeCollector.seconds: the width of a window (60. in the source,
\* scaled to the modelled clock).
Seconds == 1

\* TimeRangeCollector.delay.
Delay == 0

\* Curator.queue_size (10 in the source, scaled).
CuratorQueueSize == 1

\* The investigators of one investigation group, each in a process of its own.
Investigators == {"A", "B"}

\* Investigation.created_by after ON DELETE SET NULL.
NULL == "NULL"

\* The value of `previous` when there is no previous investigation.
NoInvestigation == [id |-> 0, index |-> 0, created_by |-> NULL, is_assigned |-> FALSE]

VARIABLES
    \* --- the store
    investigators,       \* rows of db.Investigator (their ids)
    investigations,      \* rows of db.Investigation, ordered by created_at
    events,              \* rows of db.Event of the profile (their created_at)
    investigation_event, \* rows of db.InvestigationEvent: <<investigation id, event>>
    now,                 \* the wall clock
    \* --- the investigator threads
    pc,                  \* position of each investigator thread
    shutdown,            \* Investigator.shutdown of each investigator's process
    previous,            \* local: the previous investigation of _create_investigation
    investigation,       \* local: id of the investigation being worked on
    start,               \* local: start of the window being collected
    anomalies,           \* local: the events of the collected anomalies
    curator_queue,       \* Curator._queue, the investigators' output queue
    \* --- the pipeline process
    queue_size,          \* Pipeline._queue_size
    pipeline_queue,      \* Pipeline._queue
    messages,            \* Pipeline._messages, the buffer
    timeout,             \* Pipeline._timeout
    pipeline_shutdown,   \* Pipeline._shutdown, shared with the transports
    process_id,          \* Pipeline._process_id
    timer,               \* Pipeline._timer: a timer thread, or 0 for None
    timers,              \* the threading.Timer threads
    transports,          \* Pipeline.transports
    cpc,                 \* position of the coordinator (Pipeline.start)
    entry,               \* local: the entry taken from the queue
    tpc,                 \* position of each transport thread
    tkind,               \* the class of each transport
    tleft,               \* messages each transport has still to produce
    received,            \* the messages the coordinator took from the queue
    processed,           \* the snapshots of the process cycles, concatenated
    \* --- the curator process
    findings,            \* number of investigations completed in this run
    curator_investigators, \* Curator.investigators, the list the curator keeps
    shipper_shutdown,    \* Curator._shipper_shutdown, shared with the shippers
    has_queue,           \* whether Shipper.queue has been created (else None)
    shipper_queue,       \* Shipper.queue of each shipper
    spc,                 \* position of each shipper thread
    shipped,             \* the investigations each shipper passed to ship()
    kpc,                 \* position of the curator in start()
    kentry,              \* local: the investigation of the entry being handled
    kidx,                \* local: index into Curator.shippers of a for loop
    \* --- a reporter call
    rep_values,          \* the values DataFrame given to the reporter
    rep_features,        \* the features DataFrame given to the reporter
    rep_weight,          \* Reporter.weight
    rep_scores,          \* the score column of the returned DataFrame
    rep_frame,           \* the DataFrame df the reporter takes the scores from
    rep_pc,              \* which reporter has been called
    \* --- the process cycles and their store
    db_actor,            \* rows of db.Actor
    db_feature,          \* rows of db.Feature
    db_message,          \* rows of db.Message (their ids)
    db_event,            \* rows of db.Event
    db_anomaly,          \* rows of db.Anomaly
    proc_pc,             \* position of the cycle in _process
    proc_batch,          \* local: messages, the snapshot of the buffer
    proc_cycles,         \* number of cycles begun
    proc_done,           \* the messages of the cycles that completed
    proc_stream,         \* the messages the transports have still to deliver
    \* --- a call of a function, and the file of a CSVShipper
    fn_args,             \* the arguments of the call
    fn_result,           \* what the call returned or raised
    fn_pc,               \* which function has been called
    csv_file,            \* the lines of CSVShipper.filename, or that it is absent
    csv_shipped,         \* the DataFrames passed to CSVShipper.ship so far
    backoff              \* local of Transport.send: the ExponentialBackoff of each transport

invVars == <<investigators, investigations, events, investigation_event, now,
             pc, shutdown, previous, investigation, start, anomalies>>

pipeVars == <<queue_size, pipeline_queue, messages, timeout, pipeline_shutdown,
              process_id, timer, timers, transports, cpc, entry, tpc, tkind,
              tleft, received, processed>>

curVars == <<findings, curator_investigators, shipper_shutdown, has_queue, shipper_queue, spc, shipped,
             kpc, kentry, kidx>>

repVars == <<rep_values, rep_features, rep_weight, rep_scores, rep_frame, rep_pc>>

\* The state outside the investigator, pipeline coordinator and curator runs.
procVars == <<db_actor, db_feature, db_message, db_event, db_anomaly, proc_pc,
              proc_batch, proc_cycles, proc_done, proc_stream>>

utilVars == <<fn_args, fn_result, fn_pc, csv_file, csv_shipped, backoff>>

extVars == <<repVars, procVars, utilVars>>

vars == <<invVars, curator_queue, pipeVars, curVars, extVars>>

\* ------------------------------------------------------------------------
\* Helpers over the store
\* ------------------------------------------------------------------------

Max(S) == CHOOSE x \in S : \A y \in S : y <= x
Min(S) == CHOOSE x \in S : \A y \in S : x <= y

SeqRemoveAt(s, k) == [j \in 1..(Len(s) - 1) |-> IF j < k THEN s[j] ELSE s[j + 1]]

\* query.order_by(created_at.desc()).first()
LatestInvestigation ==
    IF Len(investigations) = 0 THEN NoInvestigation
    ELSE investigations[Len(investigations)]

\* Investigation ids are only ever compared for equality, so a new row takes
\* the least id that no row and no thread still refers to.
UsedIds ==
    {investigations[k].id : k \in DOMAIN investigations}
        \cup {investigation[i] : i \in Investigators}
        \cup {previous[i].id : i \in Investigators}
        \cup {l[1] : l \in investigation_event}

FreshId == Min({n \in 1..(Cardinality(UsedIds) + 1) : n \notin UsedIds})

\* A store without the unique (group_id, index) constraint.
UniqueViolationDropped(index) == FALSE

\* sa.UniqueConstraint(group_id, index)
UniqueViolation(index) ==
    \E k \in DOMAIN investigations : investigations[k].index = index

\* A delete that removes nothing.
DeleteInvestigationNoop(id) == investigations

\* session.delete(<investigation>) by primary key
DeleteInvestigation(id) ==
    IF \E k \in DOMAIN investigations : investigations[k].id = id
    THEN SeqRemoveAt(investigations,
                     CHOOSE k \in DOMAIN investigations : investigations[k].id = id)
    ELSE investigations

\* ForeignKey(Investigator.id, ondelete='SET NULL')
SetNullCreatedBy(i) ==
    [k \in DOMAIN investigations |->
        IF investigations[k].created_by = i
        THEN [investigations[k] EXCEPT !.created_by = NULL]
        ELSE investigations[k]]

EventsOf(id) == {l[2] : l \in {m \in investigation_event : m[1] = id}}

\* TimeRangeCollector._wait: blocks until the end of the window has passed
\* or shutdown is set.
WaitOver(i, end) == shutdown[i] \/ end + Delay <= now

\* A window that takes in the event at its start.
FetchAnomaliesFromStart(i, from) ==
    IF shutdown[i] THEN {}
    ELSE {e \in events : e >= from /\ e <= from + Seconds}

\* TimeRangeCollector._fetch_anomalies
FetchAnomalies(i, from) ==
    IF shutdown[i] THEN {}
    ELSE {e \in events : e > from /\ e <= from + Seconds}

\* ------------------------------------------------------------------------
\* Investigator (scrywarden/investigator/base.py)
\* ------------------------------------------------------------------------

InitInvestigators ==
    /\ investigators = {}
    /\ investigations = <<>>
    /\ events = {}
    /\ investigation_event = {}
    /\ now = 0
    /\ pc = [i \in Investigators |-> "start"]
    /\ shutdown = [i \in Investigators |-> FALSE]
    /\ previous = [i \in Investigators |-> NoInvestigation]
    /\ investigation = [i \in Investigators |-> 0]
    /\ start = [i \in Investigators |-> 0]
    /\ anomalies = [i \in Investigators |-> {}]
    /\ curator_queue = <<>>

\* The investigation process is not part of the run.
InvestigatorsIdle ==
    /\ investigators = {}
    /\ investigations = <<>>
    /\ events = {}
    /\ investigation_event = {}
    /\ now = 0
    /\ pc = [i \in Investigators |-> "done"]
    /\ shutdown = [i \in Investigators |-> FALSE]
    /\ previous = [i \in Investigators |-> NoInvestigation]
    /\ investigation = [i \in Investigators |-> 0]
    /\ start = [i \in Investigators |-> 0]
    /\ anomalies = [i \in Investigators |-> {}]
    /\ curator_queue = <<>>

\* run, lines 85-88: _sync inserts the investigator row.
Sync(i) ==
    /\ pc[i] = "start"
    /\ investigators' = investigators \cup {i}
    /\ pc' = [pc EXCEPT ![i] = "run_loop"]
    /\ UNCHANGED <<investigations, events, investigation_event, now, shutdown,
                   previous, investigation, start, anomalies, curator_queue>>
    /\ UNCHANGED <<pipeVars, curVars, extVars>>

\* run, line 89: while not self.shutdown.is_set()
RunLoop(i) ==
    /\ pc[i] = "run_loop"
    /\ pc' = [pc EXCEPT ![i] = IF shutdown[i] THEN "delete_model" ELSE "create_loop"]
    /\ UNCHANGED <<investigators, investigations, events, investigation_event, now,
                   shutdown, previous, investigation, start, anomalies, curator_queue>>
    /\ UNCHANGED <<pipeVars, curVars, extVars>>

\* _create_investigation, line 292: when shutdown is set the loop is left and
\* the function returns None, which _investigate (line 122) cannot unpack:
\* the TypeError ends the thread before run reaches line 109.
CreateLoop(i) ==
    /\ pc[i] = "create_loop"
    /\ pc' = [pc EXCEPT ![i] = IF shutdown[i] THEN "crashed" ELSE "prev_first"]
    /\ UNCHANGED <<investigators, investigations, events, investigation_event, now,
                   shutdown, previous, investigation, start, anomalies, curator_queue>>
    /\ UNCHANGED <<pipeVars, curVars, extVars>>

\* _get_previous_investigation, lines 252-262: the first query.
PreviousFirst(i) ==
    /\ pc[i] = "prev_first"
    /\ LET found == LatestInvestigation IN
        IF found = NoInvestigation \/ found.is_assigned
        THEN /\ previous' = [previous EXCEPT ![i] = found]
             /\ pc' = [pc EXCEPT ![i] = "insert"]
        ELSE /\ previous' = previous
             /\ pc' = [pc EXCEPT ![i] = "prev_wait"]
    /\ UNCHANGED <<investigators, investigations, events, investigation_event, now,
                   shutdown, investigation, start, anomalies, curator_queue>>
    /\ UNCHANGED <<pipeVars, curVars, extVars>>

\* _get_previous_investigation, lines 265-287: one turn of the wait loop.
\* When shutdown is set the loop is left and None is returned.
PreviousWait(i) ==
    /\ pc[i] = "prev_wait"
    /\ LET found == LatestInvestigation IN
        IF shutdown[i]
        THEN /\ previous' = [previous EXCEPT ![i] = NoInvestigation]
             /\ pc' = [pc EXCEPT ![i] = "insert"]
             /\ investigations' = investigations
        ELSE IF found = NoInvestigation \/ found.is_assigned
        THEN /\ previous' = [previous EXCEPT ![i] = found]
             /\ pc' = [pc EXCEPT ![i] = "insert"]
             /\ investigations' = investigations
        ELSE IF found.created_by = NULL
        THEN /\ investigations' = DeleteInvestigation(found.id)
             /\ pc' = [pc EXCEPT ![i] = "reap_continue"]
             /\ previous' = previous
        ELSE /\ UNCHANGED <<investigations, pc, previous>>
    /\ UNCHANGED <<investigators, events, investigation_event, now,
                   shutdown, investigation, start, anomalies, curator_queue>>
    /\ UNCHANGED <<pipeVars, curVars, extVars>>

\* _get_previous_investigation, lines 282-283: backoff.reset(); continue
ReapContinue(i) ==
    /\ pc[i] = "reap_continue"
    /\ pc' = [pc EXCEPT ![i] = "prev_wait"]
    /\ UNCHANGED <<investigators, investigations, events, investigation_event, now,
                   shutdown, previous, investigation, start, anomalies, curator_queue>>
    /\ UNCHANGED <<pipeVars, curVars, extVars>>

\* An index taken from the number of investigations in the store.
NextIndexFromCount(i) == Len(investigations) + 1

\* _create_investigation, line 297
NextIndex(i) == IF previous[i] = NoInvestigation THEN 1 ELSE previous[i].index + 1

\* _create_investigation, lines 294-308, and on success the start of
\* Collector.collect (collectors.py lines 187-190), which reads the committed
\* events of the previous investigation.
Insert(i) ==
    /\ pc[i] = "insert"
    /\ IF UniqueViolation(NextIndex(i))
       THEN /\ pc' = [pc EXCEPT ![i] = "integrity_error"]
            /\ UNCHANGED <<investigations, investigation, start>>
       ELSE /\ investigations' = Append(investigations,
                    [id |-> FreshId, index |-> NextIndex(i),
                     created_by |-> i, is_assigned |-> FALSE])
            /\ investigation' = [investigation EXCEPT ![i] = FreshId]
            /\ IF previous[i] = NoInvestigation
               THEN /\ pc' = [pc EXCEPT ![i] = "first_event"]
                    /\ start' = start
               ELSE /\ pc' = [pc EXCEPT ![i] = "loop_anomalies"]
                    /\ start' = [start EXCEPT ![i] = Max(EventsOf(previous[i].id))]
    /\ previous' = [previous EXCEPT ![i] = NoInvestigation]
    /\ UNCHANGED <<investigators, events, investigation_event, now,
                   shutdown, anomalies, curator_queue>>
    /\ UNCHANGED <<pipeVars, curVars, extVars>>

\* A handler that inserts again without fetching the previous investigation.
IntegrityErrorNoRefetch(i) ==
    /\ pc[i] = "integrity_error"
    /\ pc' = [pc EXCEPT ![i] = "insert"]
    /\ UNCHANGED <<investigators, investigations, events, investigation_event, now,
                   shutdown, previous, investigation, start, anomalies, curator_queue>>
    /\ UNCHANGED <<pipeVars, curVars, extVars>>

\* _create_investigation, lines 307-308: the IntegrityError is logged and the
\* loop of line 292 is taken again.
IntegrityError(i) ==
    /\ pc[i] = "integrity_error"
    /\ pc' = [pc EXCEPT ![i] = "create_loop"]
    /\ UNCHANGED <<investigators, investigations, events, investigation_event, now,
                   shutdown, previous, investigation, start, anomalies, curator_queue>>
    /\ UNCHANGED <<pipeVars, curVars, extVars>>

\* Collector._get_first_event and _create_initial_investigation
\* (collectors.py lines 102-123, 292-302)
FirstEvent(i) ==
    /\ pc[i] = "first_event"
    /\ IF shutdown[i]
       THEN /\ pc' = [pc EXCEPT ![i] = "empty_delete"]
            /\ start' = start
       ELSE /\ events # {}
            /\ start' = [start EXCEPT ![i] = Min(events) - 1]
            /\ pc' = [pc EXCEPT ![i] = "loop_anomalies"]
    /\ UNCHANGED <<investigators, investigations, events, investigation_event, now,
                   shutdown, previous, investigation, anomalies, curator_queue>>
    /\ UNCHANGED <<pipeVars, curVars, extVars>>

\* TimeRangeCollector._loop_until_anomalies, lines 223-244: one turn of the
\* loop, once _wait has let _fetch_anomalies through.
LoopUntilAnomalies(i) ==
    /\ pc[i] = "loop_anomalies"
    /\ IF shutdown[i]
       THEN /\ pc' = [pc EXCEPT ![i] = "empty_delete"]
            /\ UNCHANGED <<start, anomalies>>
       ELSE /\ WaitOver(i, start[i] + Seconds)
            /\ LET found == FetchAnomalies(i, start[i])
                   later == {e \in events : e > start[i]} IN
                IF found # {}
                THEN /\ anomalies' = [anomalies EXCEPT ![i] = found]
                     /\ pc' = [pc EXCEPT ![i] = "assign"]
                     /\ start' = start
                ELSE IF later # {}
                THEN /\ start' = [start EXCEPT ![i] = Min(later)]
                     /\ pc' = [pc EXCEPT ![i] = "skip_fetch"]
                     /\ anomalies' = anomalies
                ELSE UNCHANGED <<pc, start, anomalies>>
    /\ UNCHANGED <<investigators, investigations, events, investigation_event, now,
                   shutdown, previous, investigation, curator_queue>>
    /\ UNCHANGED <<pipeVars, curVars, extVars>>

\* TimeRangeCollector._loop_until_anomalies, lines 237-240: the window that
\* starts at next_event.created_at is returned as it is.
SkipFetch(i) ==
    /\ pc[i] = "skip_fetch"
    /\ WaitOver(i, start[i] + Seconds)
    /\ LET found == FetchAnomalies(i, start[i]) IN
        /\ anomalies' = [anomalies EXCEPT ![i] = found]
        /\ pc' = [pc EXCEPT ![i] = IF found = {} THEN "empty_delete" ELSE "assign"]
    /\ UNCHANGED <<investigators, investigations, events, investigation_event, now,
                   shutdown, previous, investigation, start, curator_queue>>
    /\ UNCHANGED <<pipeVars, curVars, extVars>>

\* _investigate, lines 132-136
EmptyDelete(i) ==
    /\ pc[i] = "empty_delete"
    /\ investigations' = DeleteInvestigation(investigation[i])
    /\ investigation' = [investigation EXCEPT ![i] = 0]
    /\ start' = [start EXCEPT ![i] = 0]
    /\ pc' = [pc EXCEPT ![i] = "run_loop"]
    /\ UNCHANGED <<investigators, events, investigation_event, now,
                   shutdown, previous, anomalies, curator_queue>>
    /\ UNCHANGED <<pipeVars, curVars, extVars>>

\* A claim whose transaction commits is_assigned without the event links.
AssignFlagOnly(i) ==
    /\ pc[i] = "assign"
    /\ investigations' =
        [k \in DOMAIN investigations |->
            IF investigations[k].id = investigation[i]
            THEN [investigations[k] EXCEPT !.is_assigned = TRUE]
            ELSE investigations[k]]
    /\ anomalies' = [anomalies EXCEPT ![i] = {}]
    /\ start' = [start EXCEPT ![i] = 0]
    /\ pc' = [pc EXCEPT ![i] = "emit"]
    /\ UNCHANGED <<investigators, events, now, shutdown, previous, investigation,
                   investigation_event, curator_queue>>
    /\ UNCHANGED <<pipeVars, curVars, extVars>>

\* _investigate, lines 141-172: is_assigned and the event links commit
\* together; the analysis that follows does not touch the claim.
Assign(i) ==
    /\ pc[i] = "assign"
    /\ investigations' =
        [k \in DOMAIN investigations |->
            IF investigations[k].id = investigation[i]
            THEN [investigations[k] EXCEPT !.is_assigned = TRUE]
            ELSE investigations[k]]
    /\ investigation_event' =
        investigation_event \cup {<<investigation[i], e>> : e \in anomalies[i]}
    /\ anomalies' = [anomalies EXCEPT ![i] = {}]
    /\ start' = [start EXCEPT ![i] = 0]
    /\ pc' = [pc EXCEPT ![i] = "emit"]
    /\ UNCHANGED <<investigators, events, now, shutdown, previous, investigation,
                   curator_queue>>
    /\ UNCHANGED <<pipeVars, curVars, extVars>>

\* InvestigatorEntry.malicious_activity
MaliciousActivity(id) ==
    [source |-> "INVESTIGATOR", kind |-> "MALICIOUS_ACTIVITY", data |-> id]

\* run, lines 94-106: put_nowait until it succeeds or shutdown is set.
Emit(i) ==
    /\ pc[i] = "emit"
    /\ IF shutdown[i]
       THEN /\ pc' = [pc EXCEPT ![i] = "run_loop"]
            /\ investigation' = [investigation EXCEPT ![i] = 0]
            /\ curator_queue' = curator_queue
       ELSE IF Len(curator_queue) < CuratorQueueSize
       THEN /\ curator_queue' = Append(curator_queue, MaliciousActivity(investigation[i]))
            /\ investigation' = [investigation EXCEPT ![i] = 0]
            /\ pc' = [pc EXCEPT ![i] = "run_loop"]
       ELSE UNCHANGED <<pc, investigation, curator_queue>>
    /\ UNCHANGED <<investigators, investigations, events, investigation_event, now,
                   shutdown, previous, start, anomalies>>
    /\ UNCHANGED <<pipeVars, curVars, extVars>>

\* run, lines 109-112: the investigator row is deleted.
DeleteModel(i) ==
    /\ pc[i] = "delete_model"
    /\ investigators' = investigators \ {i}
    /\ investigations' = SetNullCreatedBy(i)
    /\ pc' = [pc EXCEPT ![i] = "done"]
    /\ UNCHANGED <<events, investigation_event, now, shutdown, previous,
                   investigation, start, anomalies, curator_queue>>
    /\ UNCHANGED <<pipeVars, curVars, extVars>>

\* ------------------------------------------------------------------------
\* The environment of the investigators
\* ------------------------------------------------------------------------

\* Curator.start, line 82: the process of investigator i begins to shut down.
SetShutdown(i) ==
    /\ ~shutdown[i]
    /\ pc[i] \notin {"start", "done", "crashed", "killed"}
    /\ shutdown' = [shutdown EXCEPT ![i] = TRUE]
    /\ UNCHANGED <<investigators, investigations, events, investigation_event, now,
                   pc, previous, investigation, start, anomalies, curator_queue>>
    /\ UNCHANGED <<pipeVars, curVars, extVars>>

\* An investigator dies without running its shutdown and its row is removed
\* from the store: the investigations it created keep created_by = NULL.
RemoveInvestigator(i) ==
    /\ i \in investigators
    /\ pc[i] \notin {"done", "killed"}
    /\ investigators' = investigators \ {i}
    /\ investigations' = SetNullCreatedBy(i)
    /\ pc' = [pc EXCEPT ![i] = "killed"]
    /\ previous' = [previous EXCEPT ![i] = NoInvestigation]
    /\ investigation' = [investigation EXCEPT ![i] = 0]
    /\ start' = [start EXCEPT ![i] = 0]
    /\ anomalies' = [anomalies EXCEPT ![i] = {}]
    /\ UNCHANGED <<events, investigation_event, now, shutdown, curator_queue>>
    /\ UNCHANGED <<pipeVars, curVars, extVars>>

\* Pipeline._generate_events: the pipeline process persists an event.
AddEvent ==
    /\ now < MaxTime
    /\ now' = now + 1
    /\ events' = events \cup {now + 1}
    /\ UNCHANGED <<investigators, investigations, investigation_event, pc, shutdown,
                   previous, investigation, start, anomalies, curator_queue>>
    /\ UNCHANGED <<pipeVars, curVars, extVars>>

\* A second passes.
Tick ==
    /\ now < MaxTime
    /\ now' = now + 1
    /\ UNCHANGED <<investigators, investigations, events, investigation_event, pc,
                   shutdown, previous, investigation, start, anomalies, curator_queue>>
    /\ UNCHANGED <<pipeVars, curVars, extVars>>

\* Curator._pull_entry, line 108: the curator takes an entry.
CuratorGet ==
    /\ curator_queue # <<>>
    /\ curator_queue' = Tail(curator_queue)
    /\ UNCHANGED invVars
    /\ UNCHANGED <<pipeVars, curVars, extVars>>

InvestigatorStep(i) ==
    \/ Sync(i)
    \/ RunLoop(i)
    \/ CreateLoop(i)
    \/ PreviousFirst(i)
    \/ PreviousWait(i)
    \/ ReapContinue(i)
    \/ Insert(i)
    \/ IntegrityError(i)
    \/ FirstEvent(i)
    \/ LoopUntilAnomalies(i)
    \/ SkipFetch(i)
    \/ EmptyDelete(i)
    \/ Assign(i)
    \/ Emit(i)
    \/ DeleteModel(i)

\* ------------------------------------------------------------------------
\* Pipeline coordinator, timer and transports
\* (scrywarden/pipline/base.py, scrywarden/transport/base.py)
\* ------------------------------------------------------------------------

\* Largest capacity of the pipeline queue that is explored.
MaxQueueSize == 2

\* Number of messages a transport produces.
MaxMessages == 1

\* Number of timer threads that may be alive at once.
MaxTimers == 2

Transports == {"t1", "t2"}

Timers == 1..MaxTimers

\* EphemeralTransport, RepeatableTransport and IntervalTransport.
TransportKinds == {"ephemeral", "repeatable", "interval"}

\* Number of calls of ExponentialBackoff.next() that one send follows.
MaxAttempts == 4

\* The unit of the timeouts: the sixth of a second, in which the quotients of
\* _calculate_past_threshold are whole.
BackoffScale == 6

\* ExponentialBackoff(1, initialize=True), transport/base.py line 75: after.
After == 1

\* ExponentialBackoff.__init__, timing.py line 48: dividend.
Dividend == 1

\* random.randint(0, 1000) / 1000, timing.py lines 112 and 119: the least and
\* the greatest value, in units of BackoffScale.
Jitter == {0, BackoffScale}

\* ExponentialBackoff.__init__ with initialize=True, timing.py lines 51-58:
\* past tells that _next is _calculate_past_threshold, jitter is the random
\* term of timeout.
InitialBackoff ==
    [attempts |-> 0, additional |-> 0, timeout |-> 0, jitter |-> 0, past |-> FALSE]

\* The backoff of each transport outside send.
NoBackoff == [t \in Transports |-> InitialBackoff]

\* ExponentialBackoff._calculate_timeout, timing.py lines 108-112
calculate_timeout(b, j) ==
    LET attempts == b.attempts
    IN  [attempts |-> attempts + 1,
         additional |-> b.additional,
         timeout |-> (attempts * attempts) * BackoffScale + j,
         jitter |-> j,
         past |-> attempts >= After]

\* A _calculate_past_threshold that does not accumulate the quotients.
calculate_past_thresholdFlat(b, j) ==
    LET attempts == b.attempts
        additional == (Dividend * BackoffScale) \div (attempts - After)
    IN  [attempts |-> attempts + 1,
         additional |-> additional,
         timeout |-> (After * After) * BackoffScale + additional + j,
         jitter |-> j,
         past |-> TRUE]

\* ExponentialBackoff._calculate_past_threshold, timing.py lines 114-121
calculate_past_threshold(b, j) ==
    LET attempts == b.attempts
        additional == b.additional + (Dividend * BackoffScale) \div (attempts - After)
    IN  [attempts |-> attempts + 1,
         additional |-> additional,
         timeout |-> (After * After) * BackoffScale + additional + j,
         jitter |-> j,
         past |-> TRUE]

\* ExponentialBackoff.next, timing.py lines 85-97
next(b, j) == IF b.past THEN calculate_past_threshold(b, j) ELSE calculate_timeout(b, j)

NoEntry == [source |-> "", kind |-> "", data |-> <<"", 0>>]

\* TransportEntry.message
TransportMessage(m) == [source |-> "TRANSPORT", kind |-> "MESSAGE", data |-> m]

\* TransportEntry.shutdown
TransportShutdown(t) == [source |-> "TRANSPORT", kind |-> "SHUTDOWN", data |-> <<t, 0>>]

\* PipelineEntry.blip
PipelineBlip == [source |-> "PIPELINE", kind |-> "BLIP", data |-> <<"", 0>>]

\* _handle_entry, lines 468-481: the tests of source and kind.
IsBlip(e) == e.source = "PIPELINE" /\ e.kind = "BLIP"

IsMessage(e) == e.source = "TRANSPORT" /\ e.kind = "MESSAGE"

IsShutdown(e) == e.source = "TRANSPORT" /\ e.kind = "SHUTDOWN"

\* Entries whose (source, kind) _handle_entry does not know: the ValueError
\* of line 472, of line 482 and of line 483.
UnknownPipelineEntries ==
    {[source |-> "PIPELINE", kind |-> "UNKNOWN", data |-> <<"", 0>>],
     [source |-> "TRANSPORT", kind |-> "UNKNOWN", data |-> <<"", 0>>],
     [source |-> "UNKNOWN", kind |-> "MESSAGE", data |-> <<"", 0>>]}

\* Queue.full()
PipelineQueueFull == Len(pipeline_queue) >= queue_size

\* Thread.is_alive() of a timer thread
TimerAlive(k) == k # 0 /\ timers[k].state # "unused"

\* uuid4(): an id that differs from the current one and from every id a live
\* timer has captured.
CapturedIds == {timers[k].process_id : k \in {j \in Timers : timers[j].state # "unused"}}

NewProcessId ==
    Min({n \in 0..(MaxTimers + 1) : n # process_id /\ n \notin CapturedIds})

\* Pipeline._cancel_timeout: Timer.cancel() stops a timer that still waits
\* and has no effect on one whose callback has begun.
CancelledTimers ==
    IF TimerAlive(timer) /\ timers[timer].state = "waiting"
    THEN [timers EXCEPT ![timer] = [state |-> "unused", process_id |-> 0]]
    ELSE timers

CancelledTimer == IF TimerAlive(timer) THEN 0 ELSE timer

\* Pipeline._process, lines 159-160: the buffer after the snapshot is taken.
BufferAfterProcess == <<>>

\* Pipeline._process, lines 157-160, as far as the coordinator's own state
\* goes: a new process id, the timer cancelled, the buffer swapped for an
\* empty one and its snapshot processed.
Process ==
    /\ process_id' = NewProcessId
    /\ timers' = CancelledTimers
    /\ timer' = CancelledTimer
    /\ processed' = processed \o messages
    /\ messages' = BufferAfterProcess

InitPipeline ==
    /\ queue_size \in 1..MaxQueueSize
    /\ pipeline_queue = <<>>
    /\ messages = <<>>
    /\ timeout = FALSE
    /\ pipeline_shutdown = FALSE
    /\ process_id = 0
    /\ timer = 0
    /\ timers = [k \in Timers |-> [state |-> "unused", process_id |-> 0]]
    /\ transports = Transports
    /\ cpc = "loop"
    /\ entry = NoEntry
    /\ tpc = [t \in Transports |-> "run"]
    /\ tkind \in [Transports -> TransportKinds]
    /\ tleft = [t \in Transports |-> MaxMessages]
    /\ received = <<>>
    /\ processed = <<>>

\* The pipeline process is not part of the run.
PipelineIdle ==
    /\ queue_size = 1
    /\ pipeline_queue = <<>>
    /\ messages = <<>>
    /\ timeout = FALSE
    /\ pipeline_shutdown = FALSE
    /\ process_id = 0
    /\ timer = 0
    /\ timers = [k \in Timers |-> [state |-> "unused", process_id |-> 0]]
    /\ transports = {}
    /\ cpc = "done"
    /\ entry = NoEntry
    /\ tpc = [t \in Transports |-> "done"]
    /\ tkind = [t \in Transports |-> "ephemeral"]
    /\ tleft = [t \in Transports |-> 0]
    /\ received = <<>>
    /\ processed = <<>>

\* start, line 125: while not self._shutdown.is_set()
CoordinatorLoop ==
    /\ cpc = "loop"
    /\ cpc' = IF pipeline_shutdown THEN "exit" ELSE "get"
    /\ UNCHANGED <<queue_size, pipeline_queue, messages, timeout, pipeline_shutdown,
                   process_id, timer, timers, transports, entry, tpc, tkind, tleft,
                   received, processed>>
    /\ UNCHANGED <<invVars, curator_queue, curVars, extVars>>

\* start, line 126: entry = self._queue.get()
CoordinatorGet ==
    /\ cpc = "get"
    /\ pipeline_queue # <<>>
    /\ entry' = Head(pipeline_queue)
    /\ pipeline_queue' = Tail(pipeline_queue)
    /\ received' = IF IsMessage(Head(pipeline_queue))
                   THEN Append(received, Head(pipeline_queue).data)
                   ELSE received
    /\ cpc' = "handle"
    /\ UNCHANGED <<queue_size, messages, timeout, pipeline_shutdown, process_id,
                   timer, timers, transports, tpc, tkind, tleft, processed>>
    /\ UNCHANGED <<invVars, curator_queue, curVars, extVars>>

\* start, lines 124-140: a KeyboardInterrupt or SystemExit reaches the
\* coordinator somewhere inside the try block; the entry it holds, a local
\* of the loop body, is gone with the iteration.
Interrupt ==
    /\ cpc \in {"loop", "get", "handle", "put_blip", "after_handle"}
    /\ cpc' = "exit"
    /\ entry' = NoEntry
    /\ UNCHANGED <<queue_size, pipeline_queue, messages, timeout, pipeline_shutdown,
                   process_id, timer, timers, transports, tpc, tkind, tleft,
                   received, processed>>
    /\ UNCHANGED <<invVars, curator_queue, curVars, extVars>>

\* _handle_entry, lines 469-471: a blip carries no work.
HandleBlip ==
    /\ cpc = "handle"
    /\ IsBlip(entry)
    /\ cpc' = "after_handle"
    /\ entry' = NoEntry
    /\ UNCHANGED <<queue_size, pipeline_queue, messages, timeout, pipeline_shutdown,
                   process_id, timer, timers, transports, tpc, tkind, tleft,
                   received, processed>>
    /\ UNCHANGED <<invVars, curator_queue, curVars, extVars>>

\* An unknown entry whose ValueError leaves start().
HandleUnknownUncaught ==
    /\ cpc = "handle"
    /\ entry \in UnknownPipelineEntries
    /\ cpc' = "crashed"
    /\ entry' = NoEntry
    /\ UNCHANGED <<queue_size, pipeline_queue, messages, timeout, pipeline_shutdown,
                   process_id, timer, timers, transports, tpc, tkind, tleft,
                   received, processed>>
    /\ UNCHANGED <<invVars, curator_queue, curVars, extVars>>

\* _handle_entry, lines 472, 482 and 483, and start, lines 128-131: an entry
\* of unknown source or kind raises ValueError, which is caught and logged;
\* the iteration goes on at line 132.
HandleUnknown ==
    /\ cpc = "handle"
    /\ entry \in UnknownPipelineEntries
    /\ cpc' = "after_handle"
    /\ entry' = NoEntry
    /\ UNCHANGED <<queue_size, pipeline_queue, messages, timeout, pipeline_shutdown,
                   process_id, timer, timers, transports, tpc, tkind, tleft,
                   received, processed>>
    /\ UNCHANGED <<invVars, curator_queue, curVars, extVars>>

\* A producer outside the program puts an entry of unknown source or kind
\* on the pipeline queue; one such entry is on the queue at a time.
PutUnknownPipeline ==
    /\ cpc \in {"loop", "get", "handle", "after_handle"}
    /\ ~PipelineQueueFull
    /\ \A n \in DOMAIN pipeline_queue : pipeline_queue[n] \notin UnknownPipelineEntries
    /\ \E e \in UnknownPipelineEntries : pipeline_queue' = Append(pipeline_queue, e)
    /\ UNCHANGED <<queue_size, messages, timeout, pipeline_shutdown, process_id,
                   timer, timers, transports, cpc, entry, tpc, tkind, tleft, received,
                   processed>>
    /\ UNCHANGED <<invVars, curator_queue, curVars, extVars>>

\* _handle_entry, lines 475-479, and _start_timeout: the message is buffered
\* and a timer is started unless one is alive.
HandleMessage ==
    /\ cpc = "handle"
    /\ IsMessage(entry)
    /\ messages' = Append(messages, entry.data)
    /\ IF TimerAlive(timer)
       THEN UNCHANGED <<timer, timers>>
       ELSE \E k \in Timers :
                /\ timers[k].state = "unused"
                /\ \A j \in Timers : timers[j].state = "unused" => k <= j
                /\ timers' = [timers EXCEPT
                                ![k] = [state |-> "waiting", process_id |-> process_id]]
                /\ timer' = k
    /\ cpc' = "after_handle"
    /\ entry' = NoEntry
    /\ UNCHANGED <<queue_size, pipeline_queue, timeout, pipeline_shutdown, process_id,
                   transports, tpc, tkind, tleft, received, processed>>
    /\ UNCHANGED <<invVars, curator_queue, curVars, extVars>>

\* _handle_entry, lines 480-481, and _handle_transport_shutdown, lines 487-491:
\* the transport is removed; when none is left the shutdown flag is set and
\* the blip of line 492 is still to be put.
HandleTransportShutdown ==
    /\ cpc = "handle"
    /\ IsShutdown(entry)
    /\ transports' = transports \ {entry.data[1]}
    /\ IF transports' = {}
       THEN /\ pipeline_shutdown' = TRUE
            /\ cpc' = "put_blip"
       ELSE /\ pipeline_shutdown' = pipeline_shutdown
            /\ cpc' = "after_handle"
    /\ entry' = NoEntry
    /\ UNCHANGED <<queue_size, pipeline_queue, messages, timeout, process_id, timer,
                   timers, tpc, tkind, tleft, received, processed>>
    /\ UNCHANGED <<invVars, curator_queue, curVars, extVars>>

\* _handle_transport_shutdown, line 492: self._queue.put(blip) blocks while
\* the queue is full.
PutBlip ==
    /\ cpc = "put_blip"
    /\ ~PipelineQueueFull
    /\ pipeline_queue' = Append(pipeline_queue, PipelineBlip)
    /\ cpc' = "after_handle"
    /\ UNCHANGED <<queue_size, messages, timeout, pipeline_shutdown, process_id,
                   timer, timers, transports, entry, tpc, tkind, tleft, received,
                   processed>>
    /\ UNCHANGED <<invVars, curator_queue, curVars, extVars>>

\* A main loop that runs a process cycle on the timeout flag only.
AfterHandleTimeoutOnly ==
    /\ cpc = "after_handle"
    /\ IF timeout
       THEN Process
       ELSE UNCHANGED <<process_id, timers, timer, processed, messages>>
    /\ timeout' = FALSE
    /\ cpc' = "loop"
    /\ UNCHANGED <<queue_size, pipeline_queue, pipeline_shutdown, transports, entry,
                   tpc, tkind, tleft, received>>
    /\ UNCHANGED <<invVars, curator_queue, curVars, extVars>>

\* start, lines 132-136: a process cycle when the timeout flag is set or the
\* buffer has reached queue_size.
AfterHandle ==
    /\ cpc = "after_handle"
    /\ IF timeout \/ Len(messages) >= queue_size
       THEN Process
       ELSE UNCHANGED <<process_id, timers, timer, processed, messages>>
    /\ timeout' = FALSE
    /\ cpc' = "loop"
    /\ UNCHANGED <<queue_size, pipeline_queue, pipeline_shutdown, transports, entry,
                   tpc, tkind, tleft, received>>
    /\ UNCHANGED <<invVars, curator_queue, curVars, extVars>>

\* start, lines 141-143: the timer is cancelled and the transports are told
\* to shut down.
CoordinatorExit ==
    /\ cpc = "exit"
    /\ timers' = CancelledTimers
    /\ timer' = CancelledTimer
    /\ pipeline_shutdown' = TRUE
    /\ cpc' = "join"
    /\ UNCHANGED <<queue_size, pipeline_queue, messages, timeout, process_id,
                   transports, entry, tpc, tkind, tleft, received, processed>>
    /\ UNCHANGED <<invVars, curator_queue, curVars, extVars>>

\* start, lines 144-145: transport.join() for every transport still listed.
CoordinatorJoin ==
    /\ cpc = "join"
    /\ \A t \in transports : tpc[t] = "done"
    /\ cpc' = "final"
    /\ UNCHANGED <<queue_size, pipeline_queue, messages, timeout, pipeline_shutdown,
                   process_id, timer, timers, transports, entry, tpc, tkind, tleft,
                   received, processed>>
    /\ UNCHANGED <<invVars, curator_queue, curVars, extVars>>

\* start, line 150: the final process cycle over what is left in the buffer.
CoordinatorFinal ==
    /\ cpc = "final"
    /\ Process
    /\ cpc' = "done"
    /\ UNCHANGED <<queue_size, pipeline_queue, timeout, pipeline_shutdown, transports,
                   entry, tpc, tkind, tleft, received>>
    /\ UNCHANGED <<invVars, curator_queue, curVars, extVars>>

\* threading.Timer.run: the interval is over and the timer was not cancelled.
TimerFire(k) ==
    /\ timers[k].state = "waiting"
    /\ timers' = [timers EXCEPT ![k].state = "callback"]
    /\ UNCHANGED <<queue_size, pipeline_queue, messages, timeout, pipeline_shutdown,
                   process_id, timer, transports, cpc, entry, tpc, tkind, tleft,
                   received, processed>>
    /\ UNCHANGED <<invVars, curator_queue, curVars, extVars>>

\* _trigger_timeout, lines 450-454: the timer thread reads process_id; a
\* timer whose captured id differs returns, the timer of the current cycle
\* goes on to line 455.
TimerCheck(k) ==
    /\ timers[k].state = "callback"
    /\ IF process_id # timers[k].process_id
       THEN timers' = [timers EXCEPT ![k] = [state |-> "unused", process_id |-> 0]]
       ELSE timers' = [timers EXCEPT ![k].state = "set"]
    /\ UNCHANGED <<queue_size, pipeline_queue, messages, timeout, pipeline_shutdown,
                   process_id, timer, transports, cpc, entry, tpc, tkind, tleft,
                   received, processed>>
    /\ UNCHANGED <<invVars, curator_queue, curVars, extVars>>

\* _trigger_timeout, line 455: self._timeout.set(), a step of the timer
\* thread of its own after the comparison of line 450.
TimerSet(k) ==
    /\ timers[k].state = "set"
    /\ timeout' = TRUE
    /\ timers' = [timers EXCEPT ![k].state = "put"]
    /\ UNCHANGED <<queue_size, pipeline_queue, messages, pipeline_shutdown,
                   process_id, timer, transports, cpc, entry, tpc, tkind, tleft,
                   received, processed>>
    /\ UNCHANGED <<invVars, curator_queue, curVars, extVars>>

\* _trigger_timeout, line 456: self._queue.put(blip) blocks while the queue
\* is full.
TimerPut(k) ==
    /\ timers[k].state = "put"
    /\ ~PipelineQueueFull
    /\ pipeline_queue' = Append(pipeline_queue, PipelineBlip)
    /\ timers' = [timers EXCEPT ![k] = [state |-> "unused", process_id |-> 0]]
    /\ UNCHANGED <<queue_size, messages, timeout, pipeline_shutdown, process_id,
                   timer, transports, cpc, entry, tpc, tkind, tleft, received,
                   processed>>
    /\ UNCHANGED <<invVars, curator_queue, curVars, extVars>>

\* EphemeralTransport.run, lines 120-127, RepeatableTransport.run, lines
\* 150-159, and IntervalTransport.run, lines 202-212: the head of the loop.
\* process() of an ephemeral transport yields all its messages, process() of
\* a repeatable or interval transport one message a turn.
TransportRun(t) ==
    /\ tpc[t] = "run"
    /\ IF tkind[t] # "ephemeral" /\ pipeline_shutdown
       THEN tpc' = [tpc EXCEPT ![t] = "send_shutdown"]
       ELSE IF tleft[t] > 0
       THEN tpc' = [tpc EXCEPT ![t] = "send"]
       ELSE IF tkind[t] = "ephemeral"
       THEN tpc' = [tpc EXCEPT ![t] = "send_shutdown"]
       ELSE tpc' = tpc
    /\ UNCHANGED <<queue_size, pipeline_queue, messages, timeout, pipeline_shutdown,
                   process_id, timer, timers, transports, cpc, entry, tkind, tleft,
                   received, processed>>
    /\ UNCHANGED <<invVars, curator_queue, curVars, extVars>>

\* Transport.send, lines 75-83: one turn of the loop.  shutdown.wait returns
\* True and the message is abandoned when shutdown is set; otherwise
\* put_nowait either succeeds or raises Full, and backoff.next() gives the
\* timeout of the next wait.  The backoff is a local of the call.
TransportSend(t) ==
    /\ tpc[t] = "send"
    /\ IF pipeline_shutdown
       THEN /\ tpc' = [tpc EXCEPT ![t] = "sent"]
            /\ tleft' = [tleft EXCEPT ![t] = @ - 1]
            /\ pipeline_queue' = pipeline_queue
            /\ backoff' = [backoff EXCEPT ![t] = InitialBackoff]
       ELSE IF ~PipelineQueueFull
       THEN /\ pipeline_queue' =
                Append(pipeline_queue, TransportMessage(<<t, tleft[t]>>))
            /\ tleft' = [tleft EXCEPT ![t] = @ - 1]
            /\ tpc' = [tpc EXCEPT ![t] = "sent"]
            /\ backoff' = [backoff EXCEPT ![t] = InitialBackoff]
       ELSE /\ UNCHANGED <<tpc, tleft, pipeline_queue>>
            /\ IF backoff[t].attempts < MaxAttempts
               THEN \E j \in Jitter : backoff' = [backoff EXCEPT ![t] = next(backoff[t], j)]
               ELSE backoff' = backoff
    /\ UNCHANGED <<queue_size, messages, timeout, pipeline_shutdown, process_id,
                   timer, timers, transports, cpc, entry, tkind, received, processed>>
    /\ UNCHANGED <<invVars, curator_queue, curVars, repVars, procVars>>
    /\ UNCHANGED <<fn_args, fn_result, fn_pc, csv_file, csv_shipped>>

\* run, lines 122-123 and 206-207: if self._shutdown.is_set(): break
TransportSent(t) ==
    /\ tpc[t] = "sent"
    /\ tpc' = [tpc EXCEPT ![t] =
                 IF tkind[t] = "ephemeral" /\ pipeline_shutdown
                 THEN "send_shutdown" ELSE "run"]
    /\ UNCHANGED <<queue_size, pipeline_queue, messages, timeout, pipeline_shutdown,
                   process_id, timer, timers, transports, cpc, entry, tkind, tleft,
                   received, processed>>
    /\ UNCHANGED <<invVars, curator_queue, curVars, extVars>>

\* A transport whose thread ends with the exception process() raised.
TransportRaiseUncaught(t) ==
    /\ tpc[t] = "run"
    /\ tleft[t] > 0
    /\ tleft' = [tleft EXCEPT ![t] = @ - 1]
    /\ tpc' = [tpc EXCEPT ![t] = IF tkind[t] = "ephemeral" THEN "done" ELSE "run"]
    /\ UNCHANGED <<queue_size, pipeline_queue, messages, timeout, pipeline_shutdown,
                   process_id, timer, timers, transports, cpc, entry, tkind,
                   received, processed>>
    /\ UNCHANGED <<invVars, curator_queue, curVars, extVars>>

\* run, lines 119-125, 151-157 and 203-210: process() raises while it is
\* iterated; the exception is caught and logged, the message that was to
\* come is not sent; an ephemeral transport goes on to send_shutdown, a
\* repeatable or interval transport to the head of its loop.
TransportRaise(t) ==
    /\ tpc[t] = "run"
    /\ tleft[t] > 0
    /\ tleft' = [tleft EXCEPT ![t] = @ - 1]
    /\ tpc' = [tpc EXCEPT ![t] = IF tkind[t] = "ephemeral" THEN "send_shutdown" ELSE "run"]
    /\ UNCHANGED <<queue_size, pipeline_queue, messages, timeout, pipeline_shutdown,
                   process_id, timer, timers, transports, cpc, entry, tkind,
                   received, processed>>
    /\ UNCHANGED <<invVars, curator_queue, curVars, extVars>>

\* Transport.send_shutdown, line 102: self._queue.put(shutdown) blocks while
\* the queue is full.
TransportSendShutdown(t) ==
    /\ tpc[t] = "send_shutdown"
    /\ ~PipelineQueueFull
    /\ pipeline_queue' = Append(pipeline_queue, TransportShutdown(t))
    /\ tpc' = [tpc EXCEPT ![t] = "done"]
    /\ UNCHANGED <<queue_size, messages, timeout, pipeline_shutdown, process_id,
                   timer, timers, transports, cpc, entry, tkind, tleft, received,
                   processed>>
    /\ UNCHANGED <<invVars, curator_queue, curVars, extVars>>

\* start, lines 128-131: an exception raised inside _handle_entry, here by
\* Timer.start() of _start_timeout (line 445) after the message was buffered
\* at line 478, is caught and logged; the iteration goes on at line 132.
HandleError ==
    /\ cpc = "handle"
    /\ IsMessage(entry)
    /\ ~TimerAlive(timer)
    /\ messages' = Append(messages, entry.data)
    /\ cpc' = "after_handle"
    /\ entry' = NoEntry
    /\ UNCHANGED <<queue_size, pipeline_queue, timeout, pipeline_shutdown, process_id,
                   timer, timers, transports, tpc, tkind, tleft, received, processed>>
    /\ UNCHANGED <<invVars, curator_queue, curVars, extVars>>

\* start, lines 132-136 and 150, and _process, lines 157-220: the store
\* raises inside a session of the process cycle (lines 176-187 or 209-220)
\* after the buffer was swapped at lines 159-160.  The calls of lines 134,
\* 136 and 150 are outside the try block of lines 128-131, and the handlers
\* of lines 137-140 take KeyboardInterrupt and SystemExit only: the
\* exception leaves start().
ProcessError ==
    /\ \/ cpc = "after_handle" /\ (timeout \/ Len(messages) >= queue_size)
       \/ cpc = "final"
    /\ process_id' = NewProcessId
    /\ timers' = CancelledTimers
    /\ timer' = CancelledTimer
    /\ messages' = BufferAfterProcess
    /\ timeout' = IF cpc = "after_handle" THEN FALSE ELSE timeout
    /\ cpc' = "crashed"
    /\ UNCHANGED <<queue_size, pipeline_queue, pipeline_shutdown, transports, entry,
                   tpc, tkind, tleft, received, processed>>
    /\ UNCHANGED <<invVars, curator_queue, curVars, extVars>>

CoordinatorStep ==
    \/ CoordinatorLoop
    \/ CoordinatorGet
    \/ HandleBlip
    \/ HandleMessage
    \/ HandleTransportShutdown
    \/ PutBlip
    \/ AfterHandle
    \/ CoordinatorExit
    \/ CoordinatorJoin
    \/ CoordinatorFinal

TimerStep(k) ==
    \/ TimerFire(k)
    \/ TimerCheck(k)
    \/ TimerSet(k)
    \/ TimerPut(k)

TransportStep(t) ==
    \/ TransportRun(t)
    \/ TransportSend(t)
    \/ TransportSent(t)
    \/ TransportSendShutdown(t)

\* ------------------------------------------------------------------------
\* Curator and shippers
\* (scrywarden/curator/base.py, scrywarden/shipper/base.py)
\* ------------------------------------------------------------------------

\* Number of investigations the investigators complete in a run.
MaxFindings == 2

\* Shipper.queue_size (10 in the source, scaled).
ShipperQueueSize == 1

\* Curator.shippers, in list order.
Shippers == <<"s1", "s2">>

ShipperSet == {Shippers[n] : n \in 1..Len(Shippers)}

\* CuratorEntry.malicious_activity: kind EVENT_REPORT.
EventReport(id) == [source |-> "CURATOR", kind |-> "EVENT_REPORT", data |-> id]

\* CuratorEntry.blip
CuratorBlip == [source |-> "CURATOR", kind |-> "BLIP", data |-> 0]

\* Event.is_set() of Curator._investigator_shutdown, the one event every
\* investigator of the curator shares (Curator.start, line 72).
InvestigatorShutdown == \E i \in Investigators : shutdown[i]

\* Thread.join() of an investigator returns once the thread has ended.
Joined(i) == pc[i] \in {"done", "crashed"}

InitCurator ==
    /\ findings = 0
    /\ curator_investigators = Investigators
    /\ shipper_shutdown = FALSE
    /\ has_queue = [s \in ShipperSet |-> FALSE]
    /\ shipper_queue = [s \in ShipperSet |-> <<>>]
    /\ spc = [s \in ShipperSet |-> "run"]
    /\ shipped = [s \in ShipperSet |-> <<>>]
    /\ kpc = "loop"
    /\ kentry = 0
    /\ kidx = 0

\* The curator process is not part of the run.
CuratorIdle ==
    /\ findings = 0
    /\ curator_investigators = {}
    /\ shipper_shutdown = FALSE
    /\ has_queue = [s \in ShipperSet |-> FALSE]
    /\ shipper_queue = [s \in ShipperSet |-> <<>>]
    /\ spc = [s \in ShipperSet |-> "done"]
    /\ shipped = [s \in ShipperSet |-> <<>>]
    /\ kpc = "done"
    /\ kentry = 0
    /\ kidx = 0

\* Investigator._investigate, lines 118-172, by its result: None, or a
\* completed investigation with its malicious anomalies, or an exception
\* (the TypeError of line 122 when shutdown is set, an error of the store at
\* any time), which run (line 90) does not catch: the thread ends.
Investigate(i) ==
    /\ pc[i] = "create_loop"
    /\ \/ /\ pc' = [pc EXCEPT ![i] = "run_loop"]
          /\ UNCHANGED <<findings, investigation>>
       \/ /\ findings < MaxFindings
          /\ findings' = findings + 1
          /\ investigation' = [investigation EXCEPT ![i] = findings + 1]
          /\ pc' = [pc EXCEPT ![i] = "emit"]
       \/ /\ pc' = [pc EXCEPT ![i] = "crashed"]
          /\ UNCHANGED <<findings, investigation>>
    /\ UNCHANGED <<investigators, investigations, events, investigation_event, now,
                   shutdown, previous, start, anomalies, curator_queue>>
    /\ UNCHANGED <<shipper_shutdown, has_queue, shipper_queue, spc, shipped, kpc,
                   kentry, kidx>>
    /\ UNCHANGED <<pipeVars, extVars>>
    /\ UNCHANGED curator_investigators

\* Curator.start, line 75: while not self._investigator_shutdown.is_set()
CuratorLoop ==
    /\ kpc = "loop"
    /\ kpc' = IF InvestigatorShutdown THEN "shutdown" ELSE "pull"
    /\ UNCHANGED <<invVars, curator_queue, findings, shipper_shutdown, has_queue,
                   shipper_queue, spc, shipped, kentry, kidx>>
    /\ UNCHANGED <<pipeVars, extVars>>
    /\ UNCHANGED curator_investigators

\* Curator.start, lines 77-80: a KeyboardInterrupt or SystemExit reaches the
\* curator inside the try block.
CuratorInterrupt ==
    /\ kpc \in {"loop", "pull", "ship"}
    /\ ~InvestigatorShutdown
    /\ kpc' = "shutdown"
    /\ kentry' = 0
    /\ kidx' = 0
    /\ UNCHANGED <<invVars, curator_queue, findings, shipper_shutdown, has_queue,
                   shipper_queue, spc, shipped>>
    /\ UNCHANGED <<pipeVars, extVars>>
    /\ UNCHANGED curator_investigators

\* The position after _pull_entry returns: the main loop (line 75) or the
\* drain loop (line 85), which runs after the flag is set on line 82.
AfterPull == IF InvestigatorShutdown THEN "drain" ELSE "loop"

\* Entries whose (source, kind) Curator._handle_entry does not know: the
\* ValueError of line 126 and of line 129.
UnknownCuratorEntries ==
    {[source |-> "INVESTIGATOR", kind |-> "UNKNOWN", data |-> 0],
     [source |-> "UNKNOWN", kind |-> "MALICIOUS_ACTIVITY", data |-> 0]}

\* Entries whose (source, kind) Shipper._handle_entry does not know: the
\* ValueError of line 103 and of line 104.
UnknownShipperEntries ==
    {[source |-> "CURATOR", kind |-> "UNKNOWN", data |-> 0],
     [source |-> "UNKNOWN", kind |-> "EVENT_REPORT", data |-> 0]}

\* The entry is one of the unknown ones of the set.
IsUnknown(e, unknown) == \E u \in unknown : e.source = u.source /\ e.kind = u.kind

\* Curator._pull_entry, lines 108-113, and _handle_entry, lines 116-129: the
\* blocking get; for a MALICIOUS_ACTIVITY entry _ship begins, for a SHUTDOWN
\* entry the investigator is removed from the list and _pull_entry returns;
\* the ValueError of an entry of unknown source or kind is caught and logged.
CuratorPull ==
    /\ kpc = "pull"
    /\ curator_queue # <<>>
    /\ curator_queue' = Tail(curator_queue)
    /\ LET e == Head(curator_queue) IN
        IF e.source = "INVESTIGATOR" /\ e.kind = "MALICIOUS_ACTIVITY"
        THEN /\ kentry' = e.data
             /\ kidx' = 1
             /\ kpc' = "ship"
             /\ curator_investigators' = curator_investigators
        ELSE IF e.source = "INVESTIGATOR" /\ e.kind = "SHUTDOWN"
        THEN /\ curator_investigators' = curator_investigators \ {e.data}
             /\ kentry' = 0
             /\ kidx' = 0
             /\ kpc' = AfterPull
        ELSE /\ curator_investigators' = curator_investigators
             /\ kentry' = 0
             /\ kidx' = 0
             /\ kpc' = AfterPull
    /\ UNCHANGED <<invVars, findings, shipper_shutdown, has_queue, shipper_queue,
                   spc, shipped>>
    /\ UNCHANGED <<pipeVars, extVars>>

\* Curator._ship, lines 93-105, one turn for the shipper at kidx: the while
\* loop is not entered when the investigator shutdown flag is set; put_nowait
\* on a shipper whose queue is still None raises AttributeError, which
\* _pull_entry catches (lines 111-113); a full queue is tried again.
Ship ==
    /\ kpc = "ship"
    /\ LET s == Shippers[kidx]
           last == kidx = Len(Shippers)
       IN IF InvestigatorShutdown
          THEN /\ kidx' = IF last THEN 0 ELSE kidx + 1
               /\ kentry' = IF last THEN 0 ELSE kentry
               /\ kpc' = IF last THEN AfterPull ELSE "ship"
               /\ shipper_queue' = shipper_queue
          ELSE IF ~has_queue[s]
          THEN /\ kidx' = 0
               /\ kentry' = 0
               /\ kpc' = AfterPull
               /\ shipper_queue' = shipper_queue
          ELSE IF Len(shipper_queue[s]) < ShipperQueueSize
          THEN /\ shipper_queue' =
                   [shipper_queue EXCEPT ![s] = Append(@, EventReport(kentry))]
               /\ kidx' = IF last THEN 0 ELSE kidx + 1
               /\ kentry' = IF last THEN 0 ELSE kentry
               /\ kpc' = IF last THEN AfterPull ELSE "ship"
          ELSE UNCHANGED <<kidx, kentry, kpc, shipper_queue>>
    /\ UNCHANGED <<invVars, curator_queue, findings, shipper_shutdown, has_queue,
                   spc, shipped>>
    /\ UNCHANGED <<pipeVars, extVars>>
    /\ UNCHANGED curator_investigators

\* Curator.start, line 82: self._investigator_shutdown.set()
CuratorShutdown ==
    /\ kpc = "shutdown"
    /\ shutdown' = [i \in Investigators |-> TRUE]
    /\ kpc' = "join"
    /\ UNCHANGED <<investigators, investigations, events, investigation_event, now,
                   pc, previous, investigation, start, anomalies, curator_queue>>
    /\ UNCHANGED <<findings, shipper_shutdown, has_queue, shipper_queue, spc,
                   shipped, kentry, kidx>>
    /\ UNCHANGED <<pipeVars, extVars>>
    /\ UNCHANGED curator_investigators

\* Curator.start, lines 83-84: investigator.join() for every investigator.
CuratorJoin ==
    /\ kpc = "join"
    /\ \A i \in curator_investigators : Joined(i)
    /\ kpc' = "drain"
    /\ UNCHANGED <<invVars, curator_queue, findings, shipper_shutdown, has_queue,
                   shipper_queue, spc, shipped, kentry, kidx>>
    /\ UNCHANGED <<pipeVars, extVars>>
    /\ UNCHANGED curator_investigators

\* Curator.start, lines 85-87: while not self._queue.empty(): _pull_entry();
\* then self._shipper_shutdown.set().
CuratorDrain ==
    /\ kpc = "drain"
    /\ IF curator_queue # <<>>
       THEN /\ kpc' = "pull"
            /\ UNCHANGED <<shipper_shutdown, kidx>>
       ELSE /\ shipper_shutdown' = TRUE
            /\ kidx' = 1
            /\ kpc' = "blip"
    /\ UNCHANGED <<invVars, curator_queue, findings, has_queue, shipper_queue, spc,
                   shipped, kentry>>
    /\ UNCHANGED <<pipeVars, extVars>>
    /\ UNCHANGED curator_investigators

\* Curator.start, line 89: shipper.queue.put(blip) blocks while the queue is
\* full; on a shipper whose queue is still None it raises AttributeError,
\* which leaves start().
CuratorBlipPut ==
    /\ kpc = "blip"
    /\ LET s == Shippers[kidx] IN
        IF ~has_queue[s]
        THEN /\ kpc' = "crashed"
             /\ shipper_queue' = shipper_queue
        ELSE /\ Len(shipper_queue[s]) < ShipperQueueSize
             /\ shipper_queue' = [shipper_queue EXCEPT ![s] = Append(@, CuratorBlip)]
             /\ kpc' = "join_shipper"
    /\ UNCHANGED <<invVars, curator_queue, findings, shipper_shutdown, has_queue,
                   spc, shipped, kentry, kidx>>
    /\ UNCHANGED <<pipeVars, extVars>>
    /\ UNCHANGED curator_investigators

\* Curator.start, line 90: shipper.join()
CuratorJoinShipper ==
    /\ kpc = "join_shipper"
    /\ spc[Shippers[kidx]] = "done"
    /\ IF kidx = Len(Shippers)
       THEN /\ kidx' = 0
            /\ kpc' = "done"
       ELSE /\ kidx' = kidx + 1
            /\ kpc' = "blip"
    /\ UNCHANGED <<invVars, curator_queue, findings, shipper_shutdown, has_queue,
                   shipper_queue, spc, shipped, kentry>>
    /\ UNCHANGED <<pipeVars, extVars>>
    /\ UNCHANGED curator_investigators

\* Shipper.run, line 78: self.queue = q.Queue(self.queue_size)
ShipperRun(s) ==
    /\ spc[s] = "run"
    /\ has_queue' = [has_queue EXCEPT ![s] = TRUE]
    /\ spc' = [spc EXCEPT ![s] = "loop"]
    /\ UNCHANGED <<invVars, curator_queue, findings, shipper_shutdown, shipper_queue,
                   shipped, kpc, kentry, kidx>>
    /\ UNCHANGED <<pipeVars, extVars>>
    /\ UNCHANGED curator_investigators

\* Shipper.run, line 79: while not self.shutdown.is_set()
ShipperLoop(s) ==
    /\ spc[s] = "loop"
    /\ spc' = [spc EXCEPT ![s] = IF shipper_shutdown THEN "drain" ELSE "get"]
    /\ UNCHANGED <<invVars, curator_queue, findings, shipper_shutdown, has_queue,
                   shipper_queue, shipped, kpc, kentry, kidx>>
    /\ UNCHANGED <<pipeVars, extVars>>
    /\ UNCHANGED curator_investigators

\* Shipper._handle_entry, lines 97-104, and _pull_entry, lines 91-94: an
\* EVENT_REPORT goes to ship(), a blip is logged, and the ValueError of an
\* entry of unknown source or kind is caught and logged.
ShippedAfter(s, e) ==
    IF e.source = "CURATOR" /\ e.kind = "EVENT_REPORT"
    THEN Append(shipped[s], e.data)
    ELSE shipped[s]

\* Shipper._pull_entry, lines 90-94, from the main loop: the blocking get and
\* the handling of the entry.
ShipperPull(s) ==
    /\ spc[s] = "get"
    /\ shipper_queue[s] # <<>>
    /\ shipped' = [shipped EXCEPT ![s] = ShippedAfter(s, Head(shipper_queue[s]))]
    /\ shipper_queue' = [shipper_queue EXCEPT ![s] = Tail(@)]
    /\ spc' = [spc EXCEPT ![s] = "loop"]
    /\ UNCHANGED <<invVars, curator_queue, findings, shipper_shutdown, has_queue,
                   kpc, kentry, kidx>>
    /\ UNCHANGED <<pipeVars, extVars>>
    /\ UNCHANGED curator_investigators

\* A shipper that ends without emptying its queue.
ShipperDrainSkipped(s) ==
    /\ spc[s] = "drain"
    /\ spc' = [spc EXCEPT ![s] = "done"]
    /\ UNCHANGED <<shipped, shipper_queue>>
    /\ UNCHANGED <<invVars, curator_queue, findings, shipper_shutdown, has_queue,
                   kpc, kentry, kidx>>
    /\ UNCHANGED <<pipeVars, extVars>>
    /\ UNCHANGED curator_investigators

\* Shipper.run, lines 83-84: while not self.queue.empty(): self._pull_entry()
ShipperDrain(s) ==
    /\ spc[s] = "drain"
    /\ IF shipper_queue[s] # <<>>
       THEN /\ shipped' =
                [shipped EXCEPT ![s] = ShippedAfter(s, Head(shipper_queue[s]))]
            /\ shipper_queue' = [shipper_queue EXCEPT ![s] = Tail(@)]
            /\ spc' = spc
       ELSE /\ spc' = [spc EXCEPT ![s] = "done"]
            /\ UNCHANGED <<shipped, shipper_queue>>
    /\ UNCHANGED <<invVars, curator_queue, findings, shipper_shutdown, has_queue,
                   kpc, kentry, kidx>>
    /\ UNCHANGED <<pipeVars, extVars>>
    /\ UNCHANGED curator_investigators

\* InvestigatorEntry.shutdown
InvestigatorShutdownEntry(i) ==
    [source |-> "INVESTIGATOR", kind |-> "SHUTDOWN", data |-> i]

\* An INVESTIGATOR.SHUTDOWN entry for an investigator whose thread has ended
\* is put on the curator queue.  Investigator.run itself puts none.
SendShutdown(i) ==
    /\ Joined(i)
    /\ i \in curator_investigators
    /\ \A n \in 1..Len(curator_queue) : curator_queue[n] # InvestigatorShutdownEntry(i)
    /\ Len(curator_queue) < CuratorQueueSize
    /\ curator_queue' = Append(curator_queue, InvestigatorShutdownEntry(i))
    /\ UNCHANGED <<invVars, curVars, pipeVars, extVars>>

\* A producer outside the program puts an entry of unknown source or kind
\* on the curator queue; one such entry is on the queue at a time.
PutUnknownCurator ==
    /\ kpc \in {"loop", "pull", "ship"}
    /\ Len(curator_queue) < CuratorQueueSize
    /\ \A n \in DOMAIN curator_queue : ~IsUnknown(curator_queue[n], UnknownCuratorEntries)
    /\ \E e \in UnknownCuratorEntries : curator_queue' = Append(curator_queue, e)
    /\ UNCHANGED <<invVars, curVars, pipeVars, extVars>>

\* The same for the queue of a shipper, once the shipper has created it.
PutUnknownShipper(s) ==
    /\ has_queue[s]
    /\ spc[s] \in {"loop", "get"}
    /\ Len(shipper_queue[s]) < ShipperQueueSize
    /\ \A n \in DOMAIN shipper_queue[s] :
          ~IsUnknown(shipper_queue[s][n], UnknownShipperEntries)
    /\ \E e \in UnknownShipperEntries :
          shipper_queue' = [shipper_queue EXCEPT ![s] = Append(@, e)]
    /\ UNCHANGED <<invVars, curator_queue, findings, curator_investigators,
                   shipper_shutdown, has_queue, spc, shipped, kpc, kentry, kidx>>
    /\ UNCHANGED <<pipeVars, extVars>>

CuratorStep ==
    \/ CuratorLoop
    \/ CuratorPull
    \/ Ship
    \/ CuratorShutdown
    \/ CuratorJoin
    \/ CuratorDrain
    \/ CuratorBlipPut
    \/ CuratorJoinShipper

ShipperStep(s) ==
    \/ ShipperRun(s)
    \/ ShipperLoop(s)
    \/ ShipperPull(s)
    \/ ShipperDrain(s)

\* The steps of an investigator thread as the curator sees them.
CuratedInvestigatorStep(i) ==
    \/ Sync(i)
    \/ RunLoop(i)
    \/ Investigate(i)
    \/ Emit(i)
    \/ DeleteModel(i)

\* ------------------------------------------------------------------------
\* Reporters (scrywarden/profile/reporters.py)
\* ------------------------------------------------------------------------

\* Profile._get_field_value, base.py lines 360-361: the value of a field
\* that is None is the empty string; every other value is its JSON text,
\* which is never empty.  Values are numbered in the order of their texts,
\* the empty string first.
EmptyValue == 0

\* A float is held as the exact fraction n / d.
Frac(n, d) == [n |-> n, d |-> d]

FracOf(k) == Frac(k, 1)

FracAdd(a, b) == Frac(a.n * b.d + b.n * a.d, a.d * b.d)

FracSub(a, b) == Frac(a.n * b.d - b.n * a.d, a.d * b.d)

FracMul(a, b) == Frac(a.n * b.n, a.d * b.d)

FracDiv(a, b) ==
    IF b.n < 0 THEN Frac(-(a.n * b.d), a.d * (-b.n)) ELSE Frac(a.n * b.d, a.d * b.n)

FracLess(a, b) == a.n * b.d < b.n * a.d

FracEq(a, b) == a.n * b.d = b.n * a.d

\* DataFrame.sort_values(..., ignore_index=True): a stable sort.
StableSort(s, Before(_, _)) ==
    LET n == Len(s)
        rank(i) == Cardinality({j \in 1..n :
                        \/ Before(s[j], s[i])
                        \/ ~Before(s[i], s[j]) /\ j < i}) + 1
    IN  [k \in 1..n |-> s[CHOOSE i \in 1..n : rank(i) = k]]

\* The order of sort_values(['actor_id', 'value', 'timestamp']).
ByActorValueTime(x, y) ==
    \/ x.actor_id < y.actor_id
    \/ /\ x.actor_id = y.actor_id
       /\ \/ x.value < y.value
          \/ x.value = y.value /\ x.timestamp < y.timestamp

\* The order of sort_values(['actor_id', 'timestamp']).
ByActorTime(x, y) ==
    \/ x.actor_id < y.actor_id
    \/ x.actor_id = y.actor_id /\ x.timestamp < y.timestamp

\* The features of one field and actor.
FeaturesOf(features, f, a) == {x \in features : x.field_id = f /\ x.actor_id = a}

RECURSIVE SumCount(_)
\* agg(total=('count', 'sum'))
SumCount(S) ==
    IF S = {} THEN 0
    ELSE LET x == CHOOSE y \in S : TRUE IN x.count + SumCount(S \ {x})

\* The count merged from the (field_id, actor_id, value) index, 0 where
\* fillna(0) fills a row that has no feature.
BucketCount(features, f, a, v) ==
    LET S == {x \in FeaturesOf(features, f, a) : x.value = v}
    IN  IF S = {} THEN 0 ELSE (CHOOSE x \in S : TRUE).count

\* The rows when increment_count sorts them and leaves count as it was merged.
increment_countSkipped(values) == StableSort(values, ByActorValueTime)

\* The rows when increment_total sorts them and leaves total as it was merged.
increment_totalSkipped(values) == StableSort(values, ByActorTime)

\* increment_total, lines 63-72: within each actor, in time order, total
\* grows by the number of rows before the row.
increment_total(values) ==
    LET df == StableSort(values, ByActorTime)
    IN  [i \in 1..Len(df) |->
            [df[i] EXCEPT !.total = @ + Cardinality({j \in 1..(i - 1) :
                                          df[j].actor_id = df[i].actor_id})]]

\* increment_count, lines 91-103: within each actor and value, in time
\* order, count grows by the number of rows before the row.
increment_count(values) ==
    LET df == StableSort(values, ByActorValueTime)
    IN  [i \in 1..Len(df) |->
            [df[i] EXCEPT !.count = @ + Cardinality({j \in 1..(i - 1) :
                                          /\ df[j].actor_id = df[i].actor_id
                                          /\ df[j].value = df[i].value})]]

\* Mandatory.__call__, lines 146-176: the aggregates of the actor's features
\* merged into each row, and the mean of the actor's other buckets.
MandatoryMerge(values, features) ==
    [i \in 1..Len(values) |->
        LET r == values[i]
            fa == FeaturesOf(features, r.field_id, r.actor_id)
            groups == Cardinality(fa)
            total == SumCount(fa)
            mean == IF groups = 0 THEN FracOf(0) ELSE Frac(total, groups)
            count == BucketCount(features, r.field_id, r.actor_id, r.value)
        IN  [message_id |-> r.message_id, timestamp |-> r.timestamp,
             actor_id |-> r.actor_id, field_id |-> r.field_id, value |-> r.value,
             groups |-> groups, total |-> total, mean |-> mean, count |-> count,
             previous_mean |->
                 IF groups > 1 /\ count # 0
                 THEN FracDiv(FracSub(FracMul(mean, FracOf(groups)), FracOf(count)),
                              FracOf(groups - 1))
                 ELSE IF groups > 1 THEN mean ELSE FracOf(0)]]

\* Mandatory._update_groups, lines 195-209, applied row by row: within each
\* actor, groups grows by the number of earlier rows whose count is 0.
MandatoryUpdateGroups(df) ==
    [i \in 1..Len(df) |->
        [df[i] EXCEPT !.groups = @ + Cardinality({j \in 1..(i - 1) :
                                       /\ df[j].actor_id = df[i].actor_id
                                       /\ df[j].count = 0})]]

\* Mandatory.__call__, lines 180-184: the mean with the row's bucket put back.
MandatoryUpdateMean(df) ==
    [i \in 1..Len(df) |->
        IF df[i].groups > 0
        THEN [df[i] EXCEPT !.mean =
                 FracAdd(df[i].previous_mean,
                         FracDiv(FracSub(FracOf(df[i].count), df[i].previous_mean),
                                 FracOf(df[i].groups)))]
        ELSE df[i]]

\* The score of a row when the comparison of line 187 takes the boundary
\* count = mean as below the mean.
MandatoryScoreBoundary(x, weight) ==
    LET first == IF x.value = EmptyValue \/ x.count = 0 THEN FracOf(1) ELSE FracOf(0)
        second == IF ~FracLess(x.mean, FracOf(x.count)) /\ ~FracEq(first, FracOf(1))
                  THEN FracSub(FracOf(1), Frac(x.count, x.total))
                  ELSE first
    IN  FracMul(second, weight)

\* Mandatory.__call__, lines 185-190: the score of a row.
MandatoryScore(x, weight) ==
    LET first == IF x.value = EmptyValue \/ x.count = 0 THEN FracOf(1) ELSE FracOf(0)
        second == IF FracLess(FracOf(x.count), x.mean) /\ ~FracEq(first, FracOf(1))
                  THEN FracSub(FracOf(1), Frac(x.count, x.total))
                  ELSE first
    IN  FracMul(second, weight)

\* Mandatory.__call__, lines 146-184: the DataFrame df the scores are taken
\* from, with its columns groups, total, mean, count and previous_mean.
MandatoryFrame(values, features) ==
    MandatoryUpdateMean(MandatoryUpdateGroups(
        increment_total(increment_count(MandatoryMerge(values, features)))))

\* Mandatory.__call__, lines 141-193.
Mandatory(values, features, weight) ==
    LET df == MandatoryFrame(values, features)
    IN  [i \in 1..Len(df) |->
            [message_id |-> df[i].message_id, timestamp |-> df[i].timestamp,
             actor_id |-> df[i].actor_id, field_id |-> df[i].field_id,
             value |-> df[i].value, score |-> MandatoryScore(df[i], weight)]]

\* Optional.__call__, lines 247-278: the total of the actor's features, the
\* count of the actor's empty-value bucket and the count of the row's bucket
\* merged into each row.
OptionalMerge(values, features) ==
    [i \in 1..Len(values) |->
        LET r == values[i]
        IN  [message_id |-> r.message_id, timestamp |-> r.timestamp,
             actor_id |-> r.actor_id, field_id |-> r.field_id, value |-> r.value,
             total |-> SumCount(FeaturesOf(features, r.field_id, r.actor_id)),
             null_count |-> BucketCount(features, r.field_id, r.actor_id, EmptyValue),
             count |-> BucketCount(features, r.field_id, r.actor_id, r.value)]]

\* The rows when _update_count leaves null_count as it was merged.
OptionalUpdateCountSkipped(df) == df

\* Optional._update_count, lines 292-306, applied row by row: within each
\* actor, null_count grows by the number of earlier rows with an empty value.
OptionalUpdateCount(df) ==
    [i \in 1..Len(df) |->
        [df[i] EXCEPT !.null_count = @ + Cardinality({j \in 1..(i - 1) :
                                           /\ df[j].actor_id = df[i].actor_id
                                           /\ df[j].value = EmptyValue})]]

\* The score of a row when the masks of lines 285-286 leave out the test
\* for a non-empty value.
OptionalScoreAnyValue(x, weight) ==
    LET e_zero == x.count = 0
        first == IF e_zero /\ x.total = 0 THEN FracOf(1) ELSE FracOf(0)
        second == IF e_zero /\ FracEq(first, FracOf(0))
                  THEN Frac(x.null_count, x.total)
                  ELSE first
    IN  FracMul(second, weight)

\* Optional.__call__, lines 282-289: the score of a row.
OptionalScore(x, weight) ==
    LET ne_null == x.value # EmptyValue
        e_zero == x.count = 0
        first == IF ne_null /\ e_zero /\ x.total = 0 THEN FracOf(1) ELSE FracOf(0)
        second == IF ne_null /\ e_zero /\ FracEq(first, FracOf(0))
                  THEN Frac(x.null_count, x.total)
                  ELSE first
    IN  FracMul(second, weight)

\* Optional.__call__, lines 247-281: the DataFrame df the scores are taken
\* from, with its columns total, null_count and count.
OptionalFrame(values, features) ==
    increment_count(OptionalUpdateCount(
        increment_total(OptionalMerge(values, features))))

\* Optional.__call__, lines 242-290.
Optional(values, features, weight) ==
    LET df == OptionalFrame(values, features)
    IN  [i \in 1..Len(df) |->
            [message_id |-> df[i].message_id, timestamp |-> df[i].timestamp,
             actor_id |-> df[i].actor_id, field_id |-> df[i].field_id,
             value |-> df[i].value, score |-> OptionalScore(df[i], weight)]]

\* update_feature_count, base.py lines 413-424: the number of distinct
\* messages of each (field_id, actor_id, value) of the values is added to
\* the count of its feature, and a feature is appended for each that has none.
GroupCountRows(values, f, a, v) ==
    Cardinality({j \in 1..Len(values) :
                    /\ values[j].field_id = f
                    /\ values[j].actor_id = a
                    /\ values[j].value = v})

GroupCount(values, f, a, v) ==
    Cardinality({values[i].message_id : i \in {j \in 1..Len(values) :
                    /\ values[j].field_id = f
                    /\ values[j].actor_id = a
                    /\ values[j].value = v}})

update_feature_count(values, features) ==
    LET indexed == {[x EXCEPT !.count = @ + GroupCount(values, x.field_id, x.actor_id, x.value)] :
                        x \in features}
        missing == {[field_id |-> values[i].field_id, actor_id |-> values[i].actor_id,
                     value |-> values[i].value,
                     count |-> GroupCount(values, values[i].field_id, values[i].actor_id,
                                          values[i].value)] :
                        i \in {j \in 1..Len(values) :
                                  BucketCount(features, values[j].field_id,
                                              values[j].actor_id, values[j].value) = 0}}
    IN  indexed \cup missing

\* Largest count of a feature in the snapshots that are explored.
MaxCount == 2

\* Largest number of rows in the batches that are explored.
MaxRows == 2

\* The actors, values and weights that are explored, and the field the
\* reporter is attached to.
ReportActors == {1, 2}

ReportValues == {EmptyValue, 1, 2}

ReportWeights == {Frac(1, 1), Frac(1, 2)}

ReportField == 1

OtherField == 2

\* The rows of the features DataFrame for a histogram h of the field; the
\* query of Pipeline._get_features also returns features of the other
\* fields of the batch.
FeatureRows(h) ==
    {[field_id |-> ReportField, actor_id |-> k[1], value |-> k[2], count |-> h[k]] :
        k \in {j \in DOMAIN h : h[j] > 0}}
    \cup {[field_id |-> OtherField, actor_id |-> 1, value |-> 1, count |-> MaxCount]}

Histograms == [ReportActors \X ReportValues -> 0..MaxCount]

\* The values DataFrames of n rows of the field, one row for each message.
ValueRows(n) ==
    LET Row == [timestamp : 1..2, actor_id : ReportActors, value : ReportValues]
    IN  {[i \in 1..n |-> [message_id |-> i, timestamp |-> c[i].timestamp,
                          actor_id |-> c[i].actor_id, field_id |-> ReportField,
                          value |-> c[i].value]] : c \in [1..n -> Row]}

\* No reporter is part of the run.
ReporterIdle ==
    /\ rep_values = <<>>
    /\ rep_features = {}
    /\ rep_weight = Frac(1, 1)
    /\ rep_scores = <<>>
    /\ rep_frame = <<>>
    /\ rep_pc = "done"

\* A reporter about to be called with one row and a feature snapshot.
InitReporterRow ==
    /\ rep_values \in ValueRows(1)
    /\ rep_features \in {FeatureRows(h) : h \in Histograms}
    /\ rep_weight \in ReportWeights
    /\ rep_scores = <<>>
    /\ rep_frame = <<>>
    /\ rep_pc = "ready"

\* A reporter about to be called with a batch and a feature snapshot.
InitReporterBatch ==
    /\ rep_values \in UNION {ValueRows(n) : n \in 0..MaxRows}
    /\ rep_features \in {FeatureRows(h) : h \in Histograms}
    /\ rep_weight \in ReportWeights
    /\ rep_scores = <<>>
    /\ rep_frame = <<>>
    /\ rep_pc = "ready"

\* Profile.process, base.py lines 342-344, for a Mandatory field.
CallMandatory ==
    /\ rep_pc = "ready"
    /\ rep_scores' = Mandatory(rep_values, rep_features, rep_weight)
    /\ rep_frame' = MandatoryFrame(rep_values, rep_features)
    /\ rep_pc' = "mandatory"
    /\ UNCHANGED <<rep_values, rep_features, rep_weight>>
    /\ UNCHANGED <<invVars, curator_queue, pipeVars, curVars, procVars, utilVars>>

\* Profile.process, base.py lines 342-344, for an Optional field.
CallOptional ==
    /\ rep_pc = "ready"
    /\ rep_scores' = Optional(rep_values, rep_features, rep_weight)
    /\ rep_frame' = OptionalFrame(rep_values, rep_features)
    /\ rep_pc' = "optional"
    /\ UNCHANGED <<rep_values, rep_features, rep_weight>>
    /\ UNCHANGED <<invVars, curator_queue, pipeVars, curVars, procVars, utilVars>>


\* ------------------------------------------------------------------------
\* The process cycle against the store
\* (Pipeline._process and its helpers, scrywarden/pipline/base.py;
\*  Profile.identify and Profile.process, scrywarden/profile/base.py)
\* ------------------------------------------------------------------------

\* Number of process cycles that are explored.
MaxCycles == 2

\* Largest number of messages in the buffer of a cycle.
MaxBatch == 2

\* The profile of the pipeline: its fields by id, each with its reporter.
ProfileFields == <<"Mandatory", "Optional">>

ProfileId == 1

FieldWeight == Frac(1, 1)

\* What Profile.get_actor returns for a message: a name, or something that
\* is not a string.
ActorNames == {"a", "b"}

NotAString == "<not a string>"

\* What Field.get_value returns for a message: None, a value with a JSON
\* text, or an object orjson cannot serialize; the Optional field is one
\* whose values can all be serialized.
RawNone == [kind |-> "None", text |-> EmptyValue]

RawJson == [kind |-> "json", text |-> 1]

RawUnserializable == [kind |-> "unserializable", text |-> EmptyValue]

\* The messages a transport may deliver: the k-th message received has the
\* id k, and its timestamp is the order of its arrival.
RawValues(f) ==
    IF ProfileFields[f] = "Mandatory"
    THEN {RawNone, RawJson, RawUnserializable}
    ELSE {RawNone, RawJson}

MessageData ==
    [actor : ActorNames \cup {NotAString},
     raw : {r \in [1..Len(ProfileFields) -> {RawNone, RawJson, RawUnserializable}] :
                \A f \in 1..Len(ProfileFields) : r[f] \in RawValues(f)}]

\* Profile._get_field_value, lines 358-371, for a value that can be
\* serialized.
FieldValue(raw) == IF raw.kind = "None" THEN EmptyValue ELSE raw.text

\* The row of one field of a message when a value of None yields no row
\* either.
FieldRowNoneSkipped(message, f) ==
    IF message.data.raw[f] \in {RawUnserializable, RawNone}
    THEN <<>>
    ELSE <<[message_id |-> message.id, timestamp |-> message.timestamp,
            actor_name |-> message.data.actor, field_id |-> f,
            value |-> FieldValue(message.data.raw[f])]>>

\* Profile._generate_rows, lines 384-393: the row of one field of a message,
\* none when the value cannot be serialized.
FieldRow(message, f) ==
    IF message.data.raw[f] = RawUnserializable
    THEN <<>>
    ELSE <<[message_id |-> message.id, timestamp |-> message.timestamp,
            actor_name |-> message.data.actor, field_id |-> f,
            value |-> FieldValue(message.data.raw[f])]>>

RECURSIVE FieldRows(_, _)
FieldRows(message, f) ==
    IF f > Len(ProfileFields) THEN <<>>
    ELSE FieldRow(message, f) \o FieldRows(message, f + 1)

RECURSIVE GenerateRows(_)
\* Profile._generate_rows, lines 373-393: a message whose actor is not a
\* string has no rows.
GenerateRows(batch) ==
    IF batch = <<>> THEN <<>>
    ELSE (IF Head(batch).data.actor = NotAString THEN <<>>
          ELSE FieldRows(Head(batch), 1)) \o GenerateRows(Tail(batch))

\* The position of the first row of an actor name in the values.
FirstRow(values, name) ==
    CHOOSE i \in 1..Len(values) :
        /\ values[i].actor_name = name
        /\ \A j \in 1..(i - 1) : values[j].actor_name # name

\* The rows the statement of _get_actors inserts: one for each actor name of
\* the values that has no row, with the next actor_ids in the order of the
\* names' first rows.
NewActors(values, actor) ==
    LET names == {values[i].actor_name : i \in 1..Len(values)} \ {x.name : x \in actor}
    IN  {[actor_id |-> Cardinality(actor)
                         + Cardinality({m \in names :
                                           FirstRow(values, m) <= FirstRow(values, n)}),
          profile_id |-> ProfileId, name |-> n] : n \in names}

\* The actors after _get_actors when the statement built from no rows
\* inserts a row of defaults.
InsertActorsDefaultRow(values, actor) ==
    IF values = <<>>
    THEN actor \cup {[actor_id |-> Cardinality(actor) + 1, profile_id |-> 0, name |-> ""]}
    ELSE actor \cup NewActors(values, actor)

\* Pipeline._get_actors, lines 392-401: INSERT ... ON CONFLICT DO NOTHING of
\* the actors of the values.
InsertActors(values, actor) == actor \cup NewActors(values, actor)

\* _process, lines 177-182: the values with actor_id in place of actor_name.
WithActorId(values, actor) ==
    [i \in 1..Len(values) |->
        [message_id |-> values[i].message_id, timestamp |-> values[i].timestamp,
         actor_id |-> (CHOOSE x \in actor : x.name = values[i].actor_name).actor_id,
         field_id |-> values[i].field_id, value |-> values[i].value]]

\* Pipeline._get_features, lines 363-376, without the feature_id the
\* reporters drop: the features of any field and any actor of the values.
GetFeatures(values, feature) ==
    {[field_id |-> x.field_id, actor_id |-> x.actor_id, value |-> x.value,
      count |-> x.count] :
        x \in {y \in feature :
                 /\ \E i \in 1..Len(values) : values[i].field_id = y.field_id
                 /\ \E i \in 1..Len(values) : values[i].actor_id = y.actor_id}}

\* groupby('field_id'): the rows of one field.
FieldGroup(values, f) ==
    LET idx == {i \in 1..Len(values) : values[i].field_id = f}
        nth(k) == CHOOSE i \in idx : Cardinality({j \in idx : j < i}) = k - 1
    IN  [k \in 1..Cardinality(idx) |-> values[nth(k)]]

RECURSIVE ProfileProcess(_, _, _)
\* Profile.process, lines 340-348: each field's rows are scored by the
\* field's reporter against the features, which are then brought up to date
\* with those rows for the next field.
ProfileProcess(values, features, f) ==
    IF f > Len(ProfileFields) THEN <<>>
    ELSE LET group == FieldGroup(values, f)
         IN  IF group = <<>> THEN ProfileProcess(values, features, f + 1)
             ELSE (IF ProfileFields[f] = "Mandatory"
                   THEN Mandatory(group, features, FieldWeight)
                   ELSE Optional(group, features, FieldWeight))
                  \o ProfileProcess(values, update_feature_count(group, features), f + 1)

\* _process, line 207: the rows with a score above 0.
AnomaliesAnyScore(scored_values) == scored_values

Anomalies(scored_values) ==
    LET idx == {i \in 1..Len(scored_values) :
                    FracLess(FracOf(0), scored_values[i].score)}
        nth(k) == CHOOSE i \in idx : Cardinality({j \in idx : j < i}) = k - 1
    IN  [k \in 1..Cardinality(idx) |-> scored_values[nth(k)]]

\* The order of the keys (field_id, actor_id, value) of a groupby.
KeyBefore(x, y) ==
    \/ x.field_id < y.field_id
    \/ /\ x.field_id = y.field_id
       /\ \/ x.actor_id < y.actor_id
          \/ x.actor_id = y.actor_id /\ x.value < y.value

\* Pipeline._update_features, lines 300-322, when the statement sets count to
\* the count of the batch.
UpdateFeaturesReplace(values, feature) ==
    LET updates == {[field_id |-> values[i].field_id, actor_id |-> values[i].actor_id,
                     value |-> values[i].value,
                     count |-> GroupCount(values, values[i].field_id,
                                          values[i].actor_id, values[i].value)] :
                        i \in 1..Len(values)}
        Conflict(u, x) == /\ x.field_id = u.field_id
                          /\ x.actor_id = u.actor_id
                          /\ x.value = u.value
        inserted == {u \in updates : \A x \in feature : ~Conflict(u, x)}
    IN  {IF \E u \in updates : Conflict(u, x)
         THEN [x EXCEPT !.count = (CHOOSE u \in updates : Conflict(u, x)).count]
         ELSE x : x \in feature}
        \cup {[feature_id |-> Cardinality(feature)
                                + Cardinality({v \in inserted : KeyBefore(v, u)}) + 1,
               field_id |-> u.field_id, actor_id |-> u.actor_id, value |-> u.value,
               count |-> u.count] : u \in inserted}

\* Pipeline._update_features, lines 300-322: INSERT ... ON CONFLICT DO UPDATE
\* SET count = count + excluded.count of the number of distinct messages of
\* each (field_id, actor_id, value) of the values.
UpdateFeatures(values, feature) ==
    LET updates == {[field_id |-> values[i].field_id, actor_id |-> values[i].actor_id,
                     value |-> values[i].value,
                     count |-> GroupCount(values, values[i].field_id,
                                          values[i].actor_id, values[i].value)] :
                        i \in 1..Len(values)}
        Conflict(u, x) == /\ x.field_id = u.field_id
                          /\ x.actor_id = u.actor_id
                          /\ x.value = u.value
        inserted == {u \in updates : \A x \in feature : ~Conflict(u, x)}
    IN  {IF \E u \in updates : Conflict(u, x)
         THEN [x EXCEPT !.count = @ + (CHOOSE u \in updates : Conflict(u, x)).count]
         ELSE x : x \in feature}
        \cup {[feature_id |-> Cardinality(feature)
                                + Cardinality({v \in inserted : KeyBefore(v, u)}) + 1,
               field_id |-> u.field_id, actor_id |-> u.actor_id, value |-> u.value,
               count |-> u.count] : u \in inserted}

\* A merge on field_id and actor_id alone.
FeatureIdAnyValue(feature, x) ==
    (CHOOSE y \in feature : /\ y.field_id = x.field_id
                            /\ y.actor_id = x.actor_id).feature_id

\* _process, lines 216-219: the feature_id of an anomaly.
FeatureId(feature, x) ==
    (CHOOSE y \in feature : /\ y.field_id = x.field_id
                            /\ y.actor_id = x.actor_id
                            /\ y.value = x.value).feature_id

\* _generate_events, lines 228-245: the messages of the anomalies.
AnomalousMessages(found) == {found[i].message_id : i \in 1..Len(found)}

\* _generate_events, lines 248-276: an event for each message and actor of
\* the profile's found, each with the next event_id.
NewEvents(found, event) ==
    {[event_id |-> Cardinality(event)
                     + Cardinality({n \in AnomalousMessages(found) :
                                        n < found[i].message_id}) + 1,
      message_id |-> found[i].message_id,
      actor_id |-> found[i].actor_id,
      created_at |-> found[i].timestamp] : i \in 1..Len(found)}

\* _generate_events, lines 252-258 and 277-286: the anomalies of the events.
NewAnomalies(found, event, feature) ==
    {[event_id |-> (CHOOSE e \in NewEvents(found, event) :
                        e.message_id = found[i].message_id).event_id,
      feature_id |-> FeatureId(feature, found[i]),
      field_id |-> found[i].field_id,
      score |-> found[i].score] : i \in 1..Len(found)}

\* The store is empty and no cycle has run.
InitProcess ==
    /\ db_actor = {}
    /\ db_feature = {}
    /\ db_message = {}
    /\ db_event = {}
    /\ db_anomaly = {}
    /\ proc_pc = "idle"
    /\ proc_batch = <<>>
    /\ proc_cycles = 0
    /\ proc_done = {}
    /\ proc_stream = <<>>

\* No process cycle is part of the run.
ProcessIdle ==
    /\ db_actor = {}
    /\ db_feature = {}
    /\ db_message = {}
    /\ db_event = {}
    /\ db_anomaly = {}
    /\ proc_pc = "done"
    /\ proc_batch = <<>>
    /\ proc_cycles = 0
    /\ proc_done = {}
    /\ proc_stream = <<>>

\* _process, lines 157-187: the buffer is swapped for an empty one, the
\* profile identifies its rows and _get_actors upserts their actors and
\* commits (line 401).  With no row to insert the statement of lines 393-398
\* carries no values: the store either rejects it (the columns of Actor are
\* NOT NULL) and the cycle ends with the exception, or takes it as inserting
\* nothing, and then nothing is left to do in the cycle (line 205).
ProcessBegin ==
    /\ proc_pc = "idle"
    /\ proc_cycles < MaxCycles
    /\ \E n \in 0..MaxBatch : \E data \in [1..n -> MessageData] :
          proc_batch' = [i \in 1..n |-> [id |-> proc_cycles * MaxBatch + i,
                                         timestamp |-> proc_cycles * MaxBatch + i,
                                         data |-> data[i]]]
    /\ proc_cycles' = proc_cycles + 1
    /\ db_actor' = InsertActors(GenerateRows(proc_batch'), db_actor)
    /\ IF GenerateRows(proc_batch') = <<>>
       THEN \/ proc_pc' = "raised" /\ proc_done' = proc_done
            \/ /\ proc_pc' = "idle"
               /\ proc_done' = proc_done \cup {proc_batch'[i] : i \in 1..Len(proc_batch')}
       ELSE proc_pc' = "scored" /\ proc_done' = proc_done
    /\ UNCHANGED <<db_feature, db_message, db_event, db_anomaly, proc_stream>>
    /\ UNCHANGED <<invVars, curator_queue, pipeVars, curVars, repVars, utilVars>>

\* _process, lines 188-220: the rows are scored, and in one transaction the
\* features are updated and the messages, events and anomalies of the rows
\* with a score above 0 are inserted.
ProcessCommit ==
    /\ proc_pc = "scored"
    /\ LET values == WithActorId(GenerateRows(proc_batch), db_actor)
           scored_values == ProfileProcess(values, GetFeatures(values, db_feature), 1)
           found == Anomalies(scored_values)
       IN  /\ db_feature' = UpdateFeatures(values, db_feature)
           /\ db_message' = db_message \cup AnomalousMessages(found)
           /\ db_event' = db_event \cup NewEvents(found, db_event)
           /\ db_anomaly' = db_anomaly
                  \cup NewAnomalies(found, db_event, UpdateFeatures(values, db_feature))
    /\ proc_done' = proc_done \cup {proc_batch[i] : i \in 1..Len(proc_batch)}
    /\ proc_pc' = "idle"
    /\ UNCHANGED <<db_actor, proc_batch, proc_cycles, proc_stream>>
    /\ UNCHANGED <<invVars, curator_queue, pipeVars, curVars, repVars, utilVars>>

\* _process, lines 209-220, and managed_session, database.py lines 312-320:
\* the store raises inside the transaction, which is rolled back.
ProcessRaise ==
    /\ proc_pc = "scored"
    /\ proc_pc' = "raised"
    /\ UNCHANGED <<db_actor, db_feature, db_message, db_event, db_anomaly,
                   proc_batch, proc_cycles, proc_done, proc_stream>>
    /\ UNCHANGED <<invVars, curator_queue, pipeVars, curVars, repVars, utilVars>>

\* Largest number of messages of a stream that is explored.
MaxStream == 5

\* The greetings of a stream: JSON texts of the Mandatory field.
StreamValues == {1, 2}

\* The messages of a stream: each has an actor name, a JSON value for the
\* Mandatory field and None for the Optional field.
StreamData ==
    {[actor |-> a, raw |-> <<[kind |-> "json", text |-> v], RawNone>>] :
        a \in ActorNames, v \in StreamValues}

\* The store is empty and the transports are about to deliver a stream.
InitStream ==
    /\ db_actor = {}
    /\ db_feature = {}
    /\ db_message = {}
    /\ db_event = {}
    /\ db_anomaly = {}
    /\ proc_pc = "idle"
    /\ proc_batch = <<>>
    /\ proc_cycles = 0
    /\ proc_done = {}
    /\ proc_stream \in UNION {[1..n -> StreamData] : n \in 1..MaxStream}

\* _process, lines 157-187, over the next messages of the stream: however
\* many of them reached the buffer before the cycle are swapped out, the
\* k-th message of the stream having the id and the timestamp k.
StreamBegin ==
    /\ proc_pc = "idle"
    /\ \E n \in 1..Len(proc_stream) :
          /\ proc_batch' = [i \in 1..n |-> [id |-> Cardinality(proc_done) + i,
                                            timestamp |-> Cardinality(proc_done) + i,
                                            data |-> proc_stream[i]]]
          /\ proc_stream' = SubSeq(proc_stream, n + 1, Len(proc_stream))
    /\ proc_cycles' = proc_cycles + 1
    /\ db_actor' = InsertActors(GenerateRows(proc_batch'), db_actor)
    /\ proc_pc' = "scored"
    /\ UNCHANGED <<db_feature, db_message, db_event, db_anomaly, proc_done>>
    /\ UNCHANGED <<invVars, curator_queue, pipeVars, curVars, repVars, utilVars>>

\* ------------------------------------------------------------------------
\* Functions and the CSV shipper
\* ------------------------------------------------------------------------

\* The file of a CSVShipper: one that does not exist, and one with lines.
Absent == [exists |-> FALSE, lines |-> <<>>]

File(lines) == [exists |-> TRUE, lines |-> lines]

\* No function call and no CSVShipper is part of the run.
UtilIdle ==
    /\ fn_args = <<>>
    /\ fn_result = <<>>
    /\ fn_pc = "done"
    /\ csv_file = Absent
    /\ csv_shipped = <<>>
    /\ backoff = NoBackoff

\* update_feature_count, base.py lines 413-424, with the rows of the
\* DataFrames in their order: the rows of features keep their place and
\* their feature_id and take the counts of their groups; the groups without
\* a feature follow in the order of the groupby keys, with feature_id 0.
update_feature_count_frame(values, features) ==
    LET Key(x) == [field_id |-> x.field_id, actor_id |-> x.actor_id, value |-> x.value]
        grouped == {Key(values[i]) : i \in 1..Len(values)}
        indexed == [i \in 1..Len(features) |->
                       [features[i] EXCEPT !.count =
                           @ + GroupCount(values, features[i].field_id,
                                          features[i].actor_id, features[i].value)]]
        missing == {g \in grouped : \A i \in 1..Len(features) : Key(features[i]) # g}
        nth(k) == CHOOSE g \in missing :
                      Cardinality({h \in missing : KeyBefore(h, g)}) = k - 1
    IN  indexed \o [k \in 1..Cardinality(missing) |->
                       [feature_id |-> 0, field_id |-> nth(k).field_id,
                        actor_id |-> nth(k).actor_id, value |-> nth(k).value,
                        count |-> GroupCount(values, nth(k).field_id,
                                             nth(k).actor_id, nth(k).value)]]

\* Largest number of rows of the DataFrames given to update_feature_count.
MaxFrame == 2

\* The features DataFrames: at most one row for each (field_id, actor_id,
\* value), each with its own feature_id.
FeatureFrames ==
    {c \in UNION {[1..n -> [feature_id : 1..MaxFrame, field_id : {1, 2}, actor_id : {1},
                            value : {1, 2}, count : 1..2]] : n \in 0..MaxFrame} :
        \A i, j \in 1..Len(c) :
            i # j => /\ c[i].feature_id # c[j].feature_id
                     /\ <<c[i].field_id, c[i].actor_id, c[i].value>>
                            # <<c[j].field_id, c[j].actor_id, c[j].value>>}

\* The values DataFrames.
ValueFrames ==
    UNION {[1..n -> [message_id : 1..MaxFrame, field_id : {1, 2}, actor_id : {1},
                     value : {1, 2}]] : n \in 1..MaxFrame}

\* update_feature_count is about to be called.
InitFeatureCount ==
    /\ fn_args \in [values : ValueFrames, features : FeatureFrames]
    /\ fn_result = <<>>
    /\ fn_pc = "ready"
    /\ csv_file = Absent
    /\ csv_shipped = <<>>
    /\ backoff = NoBackoff

\* Profile.process, base.py line 347: the call of update_feature_count.
CallUpdateFeatureCount ==
    /\ fn_pc = "ready"
    /\ fn_result' = update_feature_count_frame(fn_args.values, fn_args.features)
    /\ fn_pc' = "update_feature_count"
    /\ UNCHANGED <<fn_args, csv_file, csv_shipped, backoff>>
    /\ UNCHANGED <<invVars, curator_queue, pipeVars, curVars, repVars, procVars>>

RECURSIVE FracPow(_, _)
\* The power a ** k of a float for a count k >= 0.
FracPow(a, k) == IF k = 0 THEN FracOf(1) ELSE FracMul(a, FracPow(a, k - 1))

RECURSIVE SumScore(_, _)
\* The sum of the scores of the rows at the positions S.
SumScore(rows, S) ==
    IF S = {} THEN FracOf(0)
    ELSE LET i == CHOOSE j \in S : TRUE
         IN  FracAdd(rows[i].score, SumScore(rows, S \ {i}))

\* The weighted mean when the weight decays with the count itself.
weighted_meanCountExponent(mean, count, weight, decay) ==
    FracSub(mean, FracMul(weight, FracPow(FracSub(FracOf(1), decay), count)))

\* ExponentialDecayAnalyzer.analyze, analyzers.py lines 165-167.
weighted_mean(mean, count, weight, decay) ==
    FracSub(mean, FracMul(weight, FracPow(FracSub(FracOf(1), decay), count - 1)))

\* ExponentialDecayAnalyzer.analyze, analyzers.py lines 160-170: the rows of
\* the actors whose weighted mean reaches the threshold, in their order and
\* with the columns they came with.
analyze(rows, weight, decay, threshold) ==
    LET Of(a) == {i \in 1..Len(rows) : rows[i].actor_id = a}
        mean(a) == FracDiv(SumScore(rows, Of(a)), FracOf(Cardinality(Of(a))))
        idx == {i \in 1..Len(rows) :
                   ~FracLess(weighted_mean(mean(rows[i].actor_id),
                                           Cardinality(Of(rows[i].actor_id)),
                                           weight, decay),
                             threshold)}
        nth(k) == CHOOSE i \in idx : Cardinality({j \in idx : j < i}) = k - 1
    IN  [k \in 1..Cardinality(idx) |-> rows[nth(k)]]

\* Largest number of rows of the anomalies given to the analyzer.
MaxAnomalies == 3

\* The scores, in tenths, and the settings of the analyzer that are explored;
\* the first of each setting is its default (analyzers.py lines 144-146).
AnomalyScores == {Frac(6, 10), Frac(9, 10)}

AnalyzerWeights == {Frac(1, 5), Frac(1, 4)}

AnalyzerDecays == {Frac(1, 10), Frac(1, 2)}

AnalyzerThresholds == {Frac(1, 2)}

\* The anomalies DataFrames: the k-th row is the anomaly of the event k.
AnomalyFrames ==
    {[i \in 1..Len(c) |-> [event_id |-> i, actor_id |-> c[i].actor_id, score |-> c[i].score]] :
        c \in UNION {[1..n -> [actor_id : {1, 2}, score : AnomalyScores]] :
                        n \in 0..MaxAnomalies}}

\* ExponentialDecayAnalyzer.analyze is about to be called.
InitAnalyzer ==
    /\ fn_args \in [anomalies : AnomalyFrames, weight : AnalyzerWeights,
                     decay : AnalyzerDecays, threshold : AnalyzerThresholds]
    /\ fn_result = <<>>
    /\ fn_pc = "ready"
    /\ csv_file = Absent
    /\ csv_shipped = <<>>
    /\ backoff = NoBackoff

\* Investigator._investigate, investigator/base.py: the call of analyze.
CallAnalyze ==
    /\ fn_pc = "ready"
    /\ fn_result' = analyze(fn_args.anomalies, fn_args.weight, fn_args.decay,
                            fn_args.threshold)
    /\ fn_pc' = "analyze"
    /\ UNCHANGED <<fn_args, csv_file, csv_shipped, backoff>>
    /\ UNCHANGED <<invVars, curator_queue, pipeVars, curVars, repVars, procVars>>

\* Number of deliveries to a CSVShipper and largest number of rows of a
\* delivery that are explored.
MaxDeliveries == 4

MaxShipRows == 2

\* The line to_csv writes for the columns, and a line of a file that was
\* not written by the shipper.
HeaderLine == [kind |-> "header", delivery |-> 0, row |-> 0]

ForeignLine == [kind |-> "foreign", delivery |-> 0, row |-> 0]

\* The lines to_csv writes for the rows of the k-th DataFrame shipped.
RowLines(k, n) == [i \in 1..n |-> [kind |-> "row", delivery |-> k, row |-> i]]

\* The file of the shipper is absent, empty, or holds a line of its own.
InitCSV ==
    /\ csv_file \in {Absent, File(<<>>), File(<<ForeignLine>>)}
    /\ csv_shipped = <<>>
    /\ backoff = NoBackoff
    /\ fn_args = <<>>
    /\ fn_result = <<>>
    /\ fn_pc = "done"

\* ship when the header is written only for a file that does not exist.
write_headerAbsentOnly(file) == ~file.exists

\* CSVShipper.ship, csv.py lines 40-44: os.path.getsize of the file is 0,
\* or the file is not found.
write_header(file) == ~file.exists \/ Len(file.lines) = 0

\* CSVShipper.ship, csv.py lines 36-47: to_csv in mode 'a+' creates the file
\* when it is absent and appends the header, if asked for, and the rows.
CSVShip ==
    /\ Len(csv_shipped) < MaxDeliveries
    /\ \E n \in 0..MaxShipRows :
          /\ csv_shipped' = Append(csv_shipped, n)
          /\ csv_file' = File(csv_file.lines
                                 \o (IF write_header(csv_file) THEN <<HeaderLine>> ELSE <<>>)
                                 \o RowLines(Len(csv_shipped) + 1, n))
    /\ UNCHANGED <<fn_args, fn_result, fn_pc, backoff>>
    /\ UNCHANGED <<invVars, curator_queue, pipeVars, curVars, repVars, procVars>>

\* JSON values: a primitive, a list of values, or a dict from keys to values.
Primitive(v) == [type |-> "primitive", value |-> v]

List(elems) == [type |-> "list", elems |-> elems]

Dict(entries) == [type |-> "dict", entries |-> entries]

\* What a call returns or raises.
Returned(v) == [raised |-> "", value |-> v]

Raised(exception, args) == [raised |-> exception, args |-> args]

\* int(key) of a string: the integer of a decimal numeral with or without a
\* sign, or ValueError.
int(key) ==
    CASE key = "0" -> Returned(0)
      [] key = "1" -> Returned(1)
      [] key = "2" -> Returned(2)
      [] key = "-1" -> Returned(-1)
      [] key = "-2" -> Returned(-2)
      [] OTHER -> Raised("ValueError", key)

\* list.__getitem__ of an integer: an index from 0 counts from the front,
\* a negative index from the back, and any other raises IndexError.
ListItem(elems, k) ==
    IF 0 <= k /\ k < Len(elems) THEN Returned(elems[k + 1])
    ELSE IF k < 0 /\ -k <= Len(elems) THEN Returned(elems[Len(elems) + k + 1])
    ELSE Raised("IndexError", k)

\* dict.__getitem__ of a string.
DictItem(entries, key) ==
    IF key \in DOMAIN entries THEN Returned(entries[key]) ELSE Raised("KeyError", key)

\* The except clause of the list branch when it names ValueError only.
CaughtValueErrorOnly(exception) == exception = "ValueError"

\* get, message.py line 39: except (ValueError, IndexError).
Caught(exception) == exception \in {"ValueError", "IndexError"}

RECURSIVE get(_, _)
\* get, message.py lines 9-46.
get(data, field) ==
    IF field = <<>> THEN Returned(data)
    ELSE LET key == Head(field)
             remaining == Tail(field)
             target ==
                 IF data.type = "dict"
                 THEN LET item == DictItem(data.entries, key)
                      IN  IF item.raised = "KeyError" THEN Raised("KeyError", field) ELSE item
                 ELSE IF data.type = "list"
                 THEN LET index == int(key)
                          item == IF index.raised # "" THEN index
                                  ELSE ListItem(data.elems, index.value)
                      IN  IF Caught(item.raised) THEN Raised("KeyError", field) ELSE item
                 ELSE Raised("KeyError", field)
         IN  IF target.raised # "" THEN target
             ELSE LET nested == get(target.value, remaining)
                  IN  IF nested.raised = "KeyError" THEN Raised("KeyError", field)
                      ELSE nested

\* Largest number of elements of a list and of strings of a field that
\* are explored.
MaxList == 2

MaxField == 3

\* The keys of the dicts and the strings of the fields that are explored.
DictKeys == {"a", "0"}

FieldKeys == {"a", "0", "1", "-1"}

\* The JSON values: primitives, and lists and dicts nested at most twice.
JSONPrimitives == {Primitive(5), Primitive(6)}

JSONLists(V) == {List(e) : e \in UNION {[1..n -> V] : n \in 0..MaxList}}

JSONDicts(V) == {Dict(e) : e \in UNION {[K -> V] : K \in SUBSET DictKeys}}

JSONValues ==
    LET nested == JSONPrimitives \cup JSONLists(JSONPrimitives) \cup JSONDicts(JSONPrimitives)
    IN  JSONPrimitives \cup JSONLists(nested) \cup JSONDicts(nested)

\* get is about to be called.
InitGet ==
    /\ fn_args \in [data : JSONValues,
                     field : UNION {[1..n -> FieldKeys] : n \in 0..MaxField}]
    /\ fn_result = <<>>
    /\ fn_pc = "ready"
    /\ csv_file = Absent
    /\ csv_shipped = <<>>
    /\ backoff = NoBackoff

\* Message.__getitem__, message.py lines 129-132: the call of get.
CallGet ==
    /\ fn_pc = "ready"
    /\ fn_result' = get(fn_args.data, fn_args.field)
    /\ fn_pc' = "get"
    /\ UNCHANGED <<fn_args, csv_file, csv_shipped, backoff>>
    /\ UNCHANGED <<invVars, curator_queue, pipeVars, curVars, repVars, procVars>>

\* Largest number of rows of the values of one of two concurrent cycles.
MaxUpsertRows == 2

\* The keys (field_id, actor_id, value) of the rows of two concurrent cycles.
UpsertKeys == [field_id : {1, 2}, actor_id : {1}, value : {1, 2}]

\* The rows of the Feature table before two concurrent cycles: features of
\* the first field, with the feature_ids of their insertion in key order.
PriorFeatures ==
    {LET rows == {[field_id |-> 1, actor_id |-> 1, value |-> v, count |-> c[v]] :
                     v \in {w \in {1, 2} : c[w] > 0}}
     IN  {[feature_id |-> Cardinality({y \in rows : KeyBefore(y, x)}) + 1,
           field_id |-> x.field_id, actor_id |-> x.actor_id, value |-> x.value,
           count |-> x.count] : x \in rows} : c \in [{1, 2} -> 0..2]}

\* The values of the cycle of pipeline process p: rows of its own messages,
\* in the order of the messages and, for one message, of the fields
\* (_generate_rows yields the rows of a message after those of the message
\* before it, one row for each of its fields in turn).
UpsertValues(p) ==
    {c \in UNION {[1..n -> [message_id : {2 * p - 1, 2 * p}, field_id : {1, 2},
                            actor_id : {1}, value : {1, 2}]] : n \in 1..MaxUpsertRows} :
        \A i, j \in 1..Len(c) :
            i < j => \/ c[i].message_id < c[j].message_id
                     \/ /\ c[i].message_id = c[j].message_id
                        /\ c[i].field_id < c[j].field_id}

\* The pipeline processes that share the store.
Processes == {1, 2}

\* Two pipeline processes are about to execute the statement of
\* _update_features, each for the values of its own cycle, against the
\* same Feature table.
InitUpserts ==
    /\ fn_args \in [prior : PriorFeatures, values : [Processes -> UNION {UpsertValues(p) : p \in Processes}]]
    /\ \A p \in Processes : fn_args.values[p] \in UpsertValues(p)
    /\ fn_result = [locked |-> [p \in Processes |-> {}],
                    committed |-> [p \in Processes |-> FALSE],
                    order |-> <<>>]
    /\ fn_pc = "upserting"
    /\ csv_file = Absent
    /\ csv_shipped = <<>>
    /\ backoff = NoBackoff
    /\ db_actor = {}
    /\ db_feature = fn_args.prior
    /\ db_message = {}
    /\ db_event = {}
    /\ db_anomaly = {}
    /\ proc_pc = "done"
    /\ proc_batch = <<>>
    /\ proc_cycles = 0
    /\ proc_done = {}
    /\ proc_stream = <<>>

\* The key of a row of the values.
KeyOf(x) == [field_id |-> x.field_id, actor_id |-> x.actor_id, value |-> x.value]

\* _update_features, lines 300-312: the keys of the updates, which the
\* groupby leaves in the order of the keys.
UpdateKeys(values) == {KeyOf(values[i]) : i \in 1..Len(values)}

\* The rows of the values that have the key k.
KeyRows(values, k) ==
    LET idx == {i \in 1..Len(values) : KeyOf(values[i]) = k}
        nth(n) == CHOOSE i \in idx : Cardinality({j \in idx : j < i}) = n - 1
    IN  [n \in 1..Cardinality(idx) |-> values[nth(n)]]

\* _update_features, lines 313-322, in the process p: the statement reaches
\* the row of its next key k.  INSERT ... ON CONFLICT DO UPDATE locks the row
\* it inserts or updates until the transaction of the cycle ends, so the
\* statement waits while the other process holds the row, and then adds
\* its count to the count the other process left.
UpsertRow(p) ==
    /\ fn_pc = "upserting"
    /\ ~fn_result.committed[p]
    /\ \E k \in UpdateKeys(fn_args.values[p]) \ fn_result.locked[p] :
          /\ \A j \in UpdateKeys(fn_args.values[p]) \ fn_result.locked[p] :
                j = k \/ KeyBefore(k, j)
          /\ \A q \in Processes \ {p} : k \notin fn_result.locked[q]
          /\ db_feature' = UpdateFeatures(KeyRows(fn_args.values[p], k), db_feature)
          /\ fn_result' = [fn_result EXCEPT !.locked[p] = @ \cup {k},
                                            !.order = Append(@, p)]
    /\ UNCHANGED <<fn_args, fn_pc, csv_file, csv_shipped, backoff>>
    /\ UNCHANGED <<db_actor, db_message, db_event, db_anomaly,
                   proc_pc, proc_batch, proc_cycles, proc_done, proc_stream>>
    /\ UNCHANGED <<invVars, curator_queue, pipeVars, curVars, repVars>>

\* _process, line 220, and managed_session, database.py lines 312-320: the
\* transaction of the cycle of the process p commits once its statement has
\* reached every row, and its locks are released.
UpsertCommit(p) ==
    /\ fn_pc = "upserting"
    /\ ~fn_result.committed[p]
    /\ fn_result.locked[p] = UpdateKeys(fn_args.values[p])
    /\ fn_result' = [fn_result EXCEPT !.locked[p] = {}, !.committed[p] = TRUE]
    /\ fn_pc' = IF \A q \in Processes \ {p} : fn_result.committed[q]
                THEN "_update_features" ELSE fn_pc
    /\ UNCHANGED <<fn_args, csv_file, csv_shipped, backoff>>
    /\ UNCHANGED procVars
    /\ UNCHANGED <<invVars, curator_queue, pipeVars, curVars, repVars>>

\* ------------------------------------------------------------------------
\* Specifications
\* ------------------------------------------------------------------------

\* The run of the investigators of one group against the store.
InitInvestigatorsRun == InitInvestigators /\ PipelineIdle /\ CuratorIdle /\ ReporterIdle /\ ProcessIdle /\ UtilIdle

NextInvestigators ==
    \/ \E i \in Investigators : InvestigatorStep(i)
    \/ \E i \in Investigators : SetShutdown(i)
    \/ \E i \in Investigators : RemoveInvestigator(i)
    \/ AddEvent
    \/ Tick
    \/ CuratorGet

SpecInvestigators == InitInvestigatorsRun /\ [][NextInvestigators]_vars

\* The run in which the process of investigator A may shut down or die and B
\* keeps running: no shutdown is requested of B, and the thread of B is
\* scheduled again and again.
NextSurvivor ==
    \/ \E i \in Investigators : InvestigatorStep(i)
    \/ SetShutdown("A")
    \/ RemoveInvestigator("A")
    \/ AddEvent
    \/ Tick
    \/ CuratorGet

SpecSurvivor ==
    /\ InitInvestigatorsRun
    /\ [][NextSurvivor]_vars
    /\ WF_vars(InvestigatorStep("B"))

\* The run of the pipeline process.
InitPipelineRun == InitPipeline /\ InvestigatorsIdle /\ CuratorIdle /\ ReporterIdle /\ ProcessIdle /\ UtilIdle

NextPipeline ==
    \/ CoordinatorStep
    \/ Interrupt
    \/ \E k \in Timers : TimerStep(k)
    \/ \E t \in Transports : TransportStep(t)

SpecPipeline == InitPipelineRun /\ [][NextPipeline]_vars

\* The pipeline run in which every thread that can take a step is scheduled
\* again and again; an interrupt may or may not arrive.
SpecPipelineFair ==
    /\ InitPipelineRun
    /\ [][NextPipeline]_vars
    /\ WF_vars(CoordinatorStep)
    /\ \A k \in Timers : WF_vars(TimerStep(k))
    /\ \A t \in Transports : WF_vars(TransportStep(t))

\* The pipeline run in which a call made while an entry is handled or
\* inside a process cycle may raise.
NextPipelineErrors ==
    \/ CoordinatorStep
    \/ Interrupt
    \/ HandleError
    \/ ProcessError
    \/ \E k \in Timers : TimerStep(k)
    \/ \E t \in Transports : TransportStep(t)
    \/ \E t \in Transports : TransportRaise(t)

SpecPipelineErrors == InitPipelineRun /\ [][NextPipelineErrors]_vars

\* The run of the curator process with its investigators and shippers.
InitCuratorRun == InitInvestigators /\ InitCurator /\ PipelineIdle /\ ReporterIdle /\ ProcessIdle /\ UtilIdle

NextCurator ==
    \/ CuratorStep
    \/ CuratorInterrupt
    \/ \E s \in ShipperSet : ShipperStep(s)
    \/ \E i \in Investigators : CuratedInvestigatorStep(i)
    \/ \E i \in Investigators : SendShutdown(i)

SpecCurator == InitCuratorRun /\ [][NextCurator]_vars

\* The curator run in which every shipper thread that can take a step is
\* scheduled again and again.
SpecCuratorFair ==
    /\ InitCuratorRun
    /\ [][NextCurator]_vars
    /\ \A s \in ShipperSet : WF_vars(ShipperStep(s))

\* A run of either process, the pipeline (here with ephemeral transports
\* and the largest queue) or the curator, whose queues also receive entries
\* of unknown source or kind.
InitEntriesRun ==
    /\ \/ /\ InitPipeline /\ InvestigatorsIdle /\ CuratorIdle
          /\ queue_size = MaxQueueSize
          /\ tkind = [t \in Transports |-> "ephemeral"]
       \/ InitInvestigators /\ InitCurator /\ PipelineIdle
    /\ ReporterIdle /\ ProcessIdle /\ UtilIdle

NextEntries ==
    \/ NextPipeline
    \/ HandleUnknown
    \/ PutUnknownPipeline
    \/ NextCurator
    \/ PutUnknownCurator
    \/ \E s \in ShipperSet : PutUnknownShipper(s)

SpecEntries == InitEntriesRun /\ [][NextEntries]_vars

\* A reporter called with one row of values and a feature snapshot.
InitReporterRowRun ==
    InitReporterRow /\ InvestigatorsIdle /\ PipelineIdle /\ CuratorIdle /\ ProcessIdle /\ UtilIdle

NextReporter ==
    \/ CallMandatory
    \/ CallOptional

SpecReporterRow == InitReporterRowRun /\ [][NextReporter]_vars

\* A reporter called with a batch of values and a feature snapshot.
InitReporterBatchRun ==
    InitReporterBatch /\ InvestigatorsIdle /\ PipelineIdle /\ CuratorIdle /\ ProcessIdle /\ UtilIdle

SpecReporterBatch == InitReporterBatchRun /\ [][NextReporter]_vars

\* The process cycles of a pipeline against its store.
InitProcessRun ==
    InitProcess /\ InvestigatorsIdle /\ PipelineIdle /\ CuratorIdle /\ ReporterIdle /\ UtilIdle

NextProcess ==
    \/ ProcessBegin
    \/ ProcessCommit
    \/ ProcessRaise

SpecProcess == InitProcessRun /\ [][NextProcess]_vars

\* The process cycles of a pipeline over a stream of messages, none of which
\* raises.
InitStreamRun ==
    InitStream /\ InvestigatorsIdle /\ PipelineIdle /\ CuratorIdle /\ ReporterIdle /\ UtilIdle

NextStream ==
    \/ StreamBegin
    \/ ProcessCommit

SpecStream == InitStreamRun /\ [][NextStream]_vars

\* A call of update_feature_count.
InitFeatureCountRun ==
    InitFeatureCount /\ InvestigatorsIdle /\ PipelineIdle /\ CuratorIdle /\ ReporterIdle
    /\ ProcessIdle

NextFeatureCount == CallUpdateFeatureCount

SpecFeatureCount == InitFeatureCountRun /\ [][NextFeatureCount]_vars

\* A call of ExponentialDecayAnalyzer.analyze.
InitAnalyzerRun ==
    InitAnalyzer /\ InvestigatorsIdle /\ PipelineIdle /\ CuratorIdle /\ ReporterIdle
    /\ ProcessIdle

NextAnalyzer == CallAnalyze

SpecAnalyzer == InitAnalyzerRun /\ [][NextAnalyzer]_vars

\* The deliveries to one CSVShipper.
InitCSVRun ==
    InitCSV /\ InvestigatorsIdle /\ PipelineIdle /\ CuratorIdle /\ ReporterIdle
    /\ ProcessIdle

NextCSV == CSVShip

SpecCSV == InitCSVRun /\ [][NextCSV]_vars

\* A call of get.
InitGetRun ==
    InitGet /\ InvestigatorsIdle /\ PipelineIdle /\ CuratorIdle /\ ReporterIdle
    /\ ProcessIdle

NextGet == CallGet

SpecGet == InitGetRun /\ [][NextGet]_vars

\* The cycles of two pipeline processes that update the features of one
\* store at the same time.
InitUpsertsRun ==
    InitUpserts /\ InvestigatorsIdle /\ PipelineIdle /\ CuratorIdle /\ ReporterIdle

NextUpserts ==
    \/ \E p \in Processes : UpsertRow(p)
    \/ \E p \in Processes : UpsertCommit(p)

SpecUpserts == InitUpsertsRun /\ [][NextUpserts]_vars


\* ------------------------------------------------------------------------
\* Properties of the investigation coordination
\* ------------------------------------------------------------------------

IndexesOf(invs) == {invs[k].index : k \in DOMAIN invs}

Linked == {l[2] : l \in investigation_event}

\* C1: in every committed state of the store the index values of the
\* Investigation rows of the group are exactly 1..max, without gap or
\* duplicate, whatever the interleaving of claims, empty-window deletes
\* and reaping.
C1_IndexesGapFree ==
    IndexesOf(investigations) = 1..Len(investigations)

\* C1 witness: an investigator has just reaped the unassigned investigation
\* of a removed investigator while earlier investigations exist.
C1_Witness ==
    \E i \in Investigators :
        /\ pc[i] = "reap_continue"
        /\ Len(investigations) >= 2

C3_NoEventSkipped ==
    \A e \in events :
        (\E a, b \in Linked : a < e /\ e < b) => e \in Linked

\* C4: an investigator row exists iff its task is running; in particular the
\* row is gone once the task has stopped on the shutdown flag.
C4_RowIffRunning ==
    \A i \in Investigators :
        (i \in investigators) <=> (pc[i] \notin {"start", "done", "crashed", "killed"})

\* The latest investigation of the group is unassigned and its investigator
\* row has been removed.
DeadClaim ==
    /\ Len(investigations) > 0
    /\ ~LatestInvestigation.is_assigned
    /\ LatestInvestigation.created_by = NULL

\* C5: when the latest investigation is the unassigned claim of a removed
\* investigator and B waits on it, B deletes it, fetches again and claims
\* that same index itself.
C5_DeadClaimReclaimed ==
    \A k \in 1..(MaxTime + 1) :
        (pc["B"] = "prev_wait" /\ DeadClaim /\ LatestInvestigation.index = k)
            ~> (\E j \in DOMAIN investigations :
                    /\ investigations[j].index = k
                    /\ investigations[j].created_by = "B")

\* C5 witness: B has deleted the dead claim of A, which was the only
\* investigation, and is about to fetch again.
C5_Witness ==
    /\ pc["B"] = "reap_continue"
    /\ pc["A"] = "killed"
    /\ investigations = <<>>

\* ------------------------------------------------------------------------
\* Properties of the pipeline
\* ------------------------------------------------------------------------

\* The message the coordinator holds between get() and the append.
Held == IF cpc = "handle" /\ entry.kind = "MESSAGE" THEN <<entry.data>> ELSE <<>>

\* C6: every message the coordinator takes from its queue is appended to the
\* buffer and belongs to the snapshot of exactly one process cycle, the final
\* cycle included: the messages taken so far are, in order and once each, the
\* processed snapshots followed by the buffer and the message in hand, and
\* when start() has returned all of them are in the snapshots.
C6_TakenOnceInOneCycle ==
    /\ received = processed \o messages \o Held
    /\ cpc = "done" => received = processed

\* C7: once the coordinator has set the shutdown flag for the last transport
\* and is about to put its blip, the put completes, the final cycle runs and
\* start() returns.
C7_LastShutdownReturns == (cpc = "put_blip") ~> (cpc = "done")

\* C8: once the shutdown signal is set and the coordinator joins the
\* transports, every transport terminates and start() returns.
C8_JoinCompletes == (cpc = "join") ~> (cpc = "done")

\* ------------------------------------------------------------------------
\* Properties of the curator
\* ------------------------------------------------------------------------

\* Whether a report of investigation id has been put on the queue of shipper
\* s: it is still on the queue or the shipper has taken it.
Enqueued(s, id) ==
    \/ \E n \in 1..Len(shipped[s]) : shipped[s][n] = id
    \/ \E n \in 1..Len(shipper_queue[s]) :
          shipper_queue[s][n] = EventReport(id)

\* C9: when the curator has handled a finding it took from the investigator
\* queue, a report of that investigation has been put on the queue of every
\* shipper.
C9_EveryFindingForwarded ==
    [][\A id \in 1..MaxFindings :
          (kpc = "ship" /\ kentry = id /\ kpc' \in {"loop", "drain"})
              => \A s \in ShipperSet : Enqueued(s, id)']_vars

\* C10: the shipper shutdown flag is set only when the investigator
\* shutdown flag is set, every investigator is joined and the investigator
\* queue is drained, and every finding drained from the queue after shutdown
\* began has been put on the queue of every shipper.
C10_ShutdownOrderForwardsDrained ==
    /\ [][(~shipper_shutdown /\ shipper_shutdown') =>
            /\ InvestigatorShutdown
            /\ \A i \in Investigators : Joined(i)
            /\ curator_queue = <<>>]_vars
    /\ [][\A id \in 1..MaxFindings :
             (kpc = "ship" /\ kentry = id /\ kpc' = "drain")
                 => \A s \in ShipperSet : Enqueued(s, id)']_vars

\* C11: on receipt of INVESTIGATOR.SHUTDOWN(h) the curator removes h from its
\* list, and when the list has become empty it begins its shutdown: it does
\* not go back to wait for entries with the flag unset.
C11_EmptyListBeginsShutdown ==
    /\ [][\A h \in Investigators :
            (kpc = "pull" /\ kpc' \in {"loop", "drain"} /\ curator_queue # <<>>
                /\ Head(curator_queue) = InvestigatorShutdownEntry(h))
                => h \notin curator_investigators']_vars
    /\ []((curator_investigators = {} /\ kpc = "pull") => InvestigatorShutdown)

\* The reports on the queue of shipper s.
QueuedReports(s) ==
    {n \in 1..Len(shipper_queue[s]) : shipper_queue[s][n].kind = "EVENT_REPORT"}

\* C12: every report put on a shipper's queue is passed to ship() before the
\* shipper thread exits, the reports still queued when the shipper shutdown
\* flag is set included: a report leaves the queue only into ship(), the
\* blip leaves it without a ship() call, a shipper that has exited has left
\* no report behind, and once the blip is on its queue the shipper exits.
C12_ShipperAtLeastOnce ==
    /\ [][\A s \in ShipperSet :
            /\ Len(shipper_queue'[s]) > Len(shipper_queue[s]) =>
                  shipped'[s] = shipped[s]
            /\ Len(shipper_queue'[s]) < Len(shipper_queue[s]) =>
                  /\ shipper_queue'[s] = Tail(shipper_queue[s])
                  /\ Head(shipper_queue[s]).kind = "EVENT_REPORT" =>
                        shipped'[s] = Append(shipped[s], Head(shipper_queue[s]).data)
                  /\ Head(shipper_queue[s]) = CuratorBlip =>
                        shipped'[s] = shipped[s]]_vars
    /\ [](\A s \in ShipperSet : spc[s] = "done" => QueuedReports(s) = {})
    /\ \A s \in ShipperSet :
          (\E n \in 1..Len(shipper_queue[s]) : shipper_queue[s][n] = CuratorBlip)
              ~> (spc[s] = "done")

\* C12 witness: a shipper that shipped a report has exited and the curator
\* has finished its shutdown.
C12_Witness ==
    \E s \in ShipperSet :
        /\ spc[s] = "done"
        /\ shipped[s] # <<>>
        /\ kpc = "done"

\* ------------------------------------------------------------------------
\* Properties of the pipeline's error containment
\* ------------------------------------------------------------------------

\* C13: a failure raised inside the coordinator's main loop, while an entry
\* is handled or inside a process cycle, does not terminate the coordinator:
\* from the handling of an entry and from the process cycle that follows it
\* the coordinator goes on inside start(), and it never leaves start() by an
\* exception while transports are still to be served.
C13_FailureContained ==
    /\ [][(cpc \in {"handle", "after_handle"}) => (cpc' # "crashed")]_vars
    /\ [](cpc = "crashed" => \A t \in Transports : tpc[t] = "done")

\* ------------------------------------------------------------------------
\* Properties of the reporters
\* ------------------------------------------------------------------------

\* The histogram of a row's actor on the row's field in the snapshot.
Histogram(x) == FeaturesOf(rep_features, x.field_id, x.actor_id)

\* C18: the Mandatory reporter given one row and a feature snapshot, with c
\* the count of the row's bucket (0 if absent), total the sum and mean the
\* average of the counts of the actor's buckets of the field: the score is
\* weight if the value is empty or c = 0, otherwise 0 if c >= mean, otherwise
\* weight * (1 - c / total).
C18_MandatoryRowScore ==
    (rep_pc = "mandatory") =>
        \A i \in 1..Len(rep_scores) :
            LET x == rep_scores[i]
                c == BucketCount(rep_features, x.field_id, x.actor_id, x.value)
                total == SumCount(Histogram(x))
                groups == Cardinality(Histogram(x))
            IN  IF x.value = EmptyValue \/ c = 0
                THEN FracEq(x.score, rep_weight)
                ELSE IF c * groups >= total
                THEN x.score.n = 0 /\ x.score.d # 0
                ELSE /\ x.score.d # 0
                     /\ x.score.n * rep_weight.d * total
                            = rep_weight.n * (total - c) * x.score.d

\* A row whose value was seen less often than the mean has been scored.
C18_Witness ==
    /\ rep_pc = "mandatory"
    /\ Len(rep_scores) = 1
    /\ LET x == rep_scores[1]
           c == BucketCount(rep_features, x.field_id, x.actor_id, x.value)
       IN  /\ x.value # EmptyValue
           /\ c > 0
           /\ c * Cardinality(Histogram(x)) < SumCount(Histogram(x))
           /\ x.score.n > 0

\* C19: the Optional reporter given one row and a feature snapshot: a row
\* with an empty value scores 0; a row with a non-empty value scores 0 if
\* the count of its bucket is > 0, weight if the actor has no history on the
\* field (total = 0), and weight * null_count / total otherwise, null_count
\* being the count of the actor's empty-value bucket (0 if absent).
C19_OptionalRowScore ==
    (rep_pc = "optional") =>
        \A i \in 1..Len(rep_scores) :
            LET x == rep_scores[i]
                c == BucketCount(rep_features, x.field_id, x.actor_id, x.value)
                total == SumCount(Histogram(x))
                null_count == BucketCount(rep_features, x.field_id, x.actor_id, EmptyValue)
            IN  IF x.value = EmptyValue \/ c > 0
                THEN x.score.n = 0 /\ x.score.d # 0
                ELSE IF total = 0
                THEN FracEq(x.score, rep_weight)
                ELSE /\ x.score.d # 0
                     /\ x.score.n * rep_weight.d * total
                            = rep_weight.n * null_count * x.score.d

\* An unseen value of an actor that has left the field empty before has
\* been scored.
C19_Witness ==
    /\ rep_pc = "optional"
    /\ Len(rep_scores) = 1
    /\ LET x == rep_scores[1]
       IN  /\ x.value # EmptyValue
           /\ BucketCount(rep_features, x.field_id, x.actor_id, x.value) = 0
           /\ BucketCount(rep_features, x.field_id, x.actor_id, EmptyValue) > 0
           /\ SumCount(Histogram(x))
                  > BucketCount(rep_features, x.field_id, x.actor_id, EmptyValue)
           /\ x.score.n > 0

\* The rows of the batch in the order of their timestamps.
ByTime(x, y) == x.timestamp < y.timestamp

SequentialOrder == StableSort(rep_values, ByTime)

RECURSIVE SnapshotBefore(_)
\* The features when the rows before the k-th have been processed, one row
\* in each cycle.
SnapshotBefore(k) ==
    IF k = 1 THEN rep_features
    ELSE update_feature_count(<<SequentialOrder[k - 1]>>, SnapshotBefore(k - 1))

\* The score of the k-th row when it is processed in a cycle of its own.
SequentialScore(k) ==
    Mandatory(<<SequentialOrder[k]>>, SnapshotBefore(k), rep_weight)[1].score

\* C20: the Mandatory reporter is incrementally correct within a batch: for
\* every feature snapshot and every batch of rows of one field with distinct
\* timestamps, the score of each row equals the score the row gets when the
\* rows are processed one in each cycle in the order of their timestamps,
\* the features being updated after each row.
C20_MandatoryIncremental ==
    (/\ rep_pc = "mandatory"
     /\ \A i, j \in 1..Len(rep_values) :
            i # j => rep_values[i].timestamp # rep_values[j].timestamp) =>
        \A i \in 1..Len(rep_scores) : \A k \in 1..Len(rep_values) :
            SequentialOrder[k].message_id = rep_scores[i].message_id =>
                FracEq(rep_scores[i].score, SequentialScore(k))

\* ------------------------------------------------------------------------
\* Properties of the process cycle
\* ------------------------------------------------------------------------

\* C14: after any sequence of process cycles every persisted Event has at
\* least one Anomaly with its event_id and a score above 0, every persisted
\* Message is referenced by at least one Event, and every Anomaly belongs to
\* a persisted Event: a message whose rows all score 0 leaves no Message,
\* Event or Anomaly row.
C14_EventsHaveAnomalies ==
    /\ \A e \in db_event :
          \E x \in db_anomaly : x.event_id = e.event_id /\ FracLess(FracOf(0), x.score)
    /\ \A m \in db_message : \E e \in db_event : e.message_id = m
    /\ \A x \in db_anomaly :
          /\ FracLess(FracOf(0), x.score)
          /\ \E e \in db_event : e.event_id = x.event_id /\ e.message_id \in db_message

\* Two cycles have completed, the second over a message that left an event
\* and a message whose rows all scored 0 and that left no row.
C14_Witness ==
    /\ proc_pc = "idle"
    /\ proc_cycles = 2
    /\ Len(proc_batch) = 2
    /\ proc_batch[1].data.actor \in ActorNames
    /\ proc_batch[2].data.actor \in ActorNames
    /\ proc_batch[1] \in proc_done
    /\ proc_batch[1].id \in db_message
    /\ proc_batch[2].id \notin db_message
    /\ \A e \in db_event : e.message_id # proc_batch[2].id

\* The features of a field and an actor in the store.
StoredHistogram(f, a) == {x \in db_feature : x.field_id = f /\ x.actor_id = a}

\* C15: for a fixed (field_id, actor_id, value) the persisted Feature.count
\* never decreases from one process cycle to the next, and it is at least 1
\* whenever the row exists.
C15_FeatureCountGrows ==
    /\ [][\A x \in db_feature : \E y \in db_feature' :
              /\ y.field_id = x.field_id
              /\ y.actor_id = x.actor_id
              /\ y.value = x.value
              /\ y.count >= x.count]_vars
    /\ [](\A x \in db_feature : x.count >= 1)

\* A feature counted in the first cycle has been counted again in the second.
C15_Witness ==
    /\ proc_pc = "idle"
    /\ proc_cycles = 2
    /\ \E x \in db_feature :
          /\ x.count > Len(proc_batch)
          /\ \E i \in 1..Len(proc_batch) :
                /\ proc_batch[i].data.actor \in ActorNames
                /\ proc_batch[i].data.raw[x.field_id] # RawUnserializable
                /\ FieldValue(proc_batch[i].data.raw[x.field_id]) = x.value
                /\ \E a \in db_actor : a.actor_id = x.actor_id
                                       /\ a.name = proc_batch[i].data.actor

\* The messages of the completed cycles that the profile identified for an
\* actor.
IdentifiedFor(name) == {m \in proc_done : m.data.actor = name}

\* C16 as stated: after any sequence of process cycles over messages with
\* distinct ids, for every field f and actor a the sum over all values v of
\* Feature.count(f, a, v) equals the number of messages processed so far
\* that f's profile identified for a.
C16_CountsSumToMessages ==
    (proc_pc = "idle") =>
        \A f \in 1..Len(ProfileFields) : \A a \in db_actor :
            SumCount(StoredHistogram(f, a.actor_id)) = Cardinality(IdentifiedFor(a.name))

\* C16 as amended: after any sequence of process cycles over messages with
\* distinct ids, for every field f and actor a the sum over all values v of
\* Feature.count(f, a, v) equals the number of messages processed so far
\* that f's profile identified for a and for which f produced a value, None
\* included; a message whose value for f cannot be serialized has no row for
\* f and adds nothing to f's buckets.
C16_CountsSumToRows ==
    (proc_pc = "idle") =>
        \A f \in 1..Len(ProfileFields) : \A a \in db_actor :
            SumCount(StoredHistogram(f, a.actor_id))
                = Cardinality({m \in IdentifiedFor(a.name) :
                                   m.data.raw[f] # RawUnserializable})

\* Two cycles have counted messages of one actor, among them one with no
\* value and one whose value could not be serialized.
C16_Witness ==
    /\ proc_pc = "idle"
    /\ proc_cycles = 2
    /\ \E a \in db_actor : \E f \in 1..Len(ProfileFields) :
          /\ \E m \in IdentifiedFor(a.name) : m.data.raw[f] = RawUnserializable
          /\ \E m \in IdentifiedFor(a.name) : m.data.raw[f] = RawNone
          /\ SumCount(StoredHistogram(f, a.actor_id)) > 1
          /\ Cardinality(StoredHistogram(f, a.actor_id)) > 1

\* C17: a process cycle over an empty message buffer is a no-op on the
\* store: no actor, feature, message, event or anomaly row is inserted or
\* changed.
C17_EmptyBatchNoOp ==
    [][(proc_cycles' = proc_cycles + 1 /\ proc_batch' = <<>>) =>
           UNCHANGED <<db_actor, db_feature, db_message, db_event, db_anomaly>>]_vars

\* A cycle over an empty buffer has run against a store that holds rows.
C17_Witness ==
    /\ proc_cycles = 2
    /\ proc_batch = <<>>
    /\ proc_pc \in {"idle", "raised"}
    /\ db_actor # {}
    /\ db_feature # {}
    /\ db_event # {}

RECURSIVE SnapshotsOf(_, _)
\* The features before each row of a sequence of rows that are processed one
\* in each cycle, the first against the given features.
SnapshotsOf(rows, features) ==
    IF rows = <<>> THEN <<>>
    ELSE <<features>> \o SnapshotsOf(Tail(rows), update_feature_count(<<Head(rows)>>, features))

\* C21: the Optional reporter is incrementally correct within a batch: for
\* every feature snapshot and every batch of rows of one field, the score of
\* each row equals the score the row gets when the rows are processed one in
\* each cycle in the order of their timestamps, the features (and with them
\* the actor's count, total and null_count) being updated after each row.
C21_OptionalIncremental ==
    (rep_pc = "optional") =>
        LET rows == SequentialOrder
            before == SnapshotsOf(rows, rep_features)
        IN  \A k \in 1..Len(rows) : \E i \in 1..Len(rep_scores) :
                /\ rep_scores[i].message_id = rows[k].message_id
                /\ rep_scores[i].score.d # 0
                /\ Optional(<<rows[k]>>, before[k], rep_weight) = <<rep_scores[i]>>

\* A batch has been scored in which an unseen value follows an empty value
\* of the same actor, so that its score rests on the null_count and total
\* raised within the batch.
C21_Witness ==
    /\ rep_pc = "optional"
    /\ \E i, j \in 1..Len(rep_values) :
          /\ rep_values[i].actor_id = rep_values[j].actor_id
          /\ rep_values[i].timestamp < rep_values[j].timestamp
          /\ rep_values[i].value = EmptyValue
          /\ rep_values[j].value # EmptyValue
          /\ BucketCount(rep_features, rep_values[j].field_id, rep_values[j].actor_id,
                         rep_values[j].value) = 0
          /\ BucketCount(rep_features, rep_values[j].field_id, rep_values[j].actor_id,
                         EmptyValue) = 0
          /\ \E n \in 1..Len(rep_scores) :
                /\ rep_scores[n].message_id = rep_values[j].message_id
                /\ rep_scores[n].score.n > 0

\* C22: for every feature snapshot and every batch, with a weight in [0,1],
\* both reporters give every row a score in [0,1]; with the increments made
\* within the batch the count of a row never exceeds its total, and a row
\* whose score is taken from the ratio is never divided by a total of zero.
C22_ScoresInUnitInterval ==
    (rep_pc \in {"mandatory", "optional"}) =>
        \A i \in 1..Len(rep_scores) :
            LET x == rep_frame[i]
                score == rep_scores[i].score
                ratio == IF rep_pc = "mandatory"
                         THEN x.value # EmptyValue /\ x.count # 0 /\ FracLess(FracOf(x.count), x.mean)
                         ELSE x.value # EmptyValue /\ x.count = 0 /\ x.null_count # 0
            IN  /\ score.d > 0
                /\ 0 <= score.n
                /\ score.n <= score.d
                /\ x.count <= x.total
                /\ ratio => x.total > 0

\* A Mandatory row of a batch whose total was raised by an earlier row of the
\* batch and whose score, taken from the ratio, lies strictly between 0 and 1.
C22_Witness ==
    /\ rep_pc = "mandatory"
    /\ \E i \in 1..Len(rep_scores) :
          /\ rep_frame[i].total >
                 SumCount(FeaturesOf(rep_features, rep_frame[i].field_id, rep_frame[i].actor_id))
          /\ rep_frame[i].value # EmptyValue
          /\ rep_frame[i].count # 0
          /\ FracLess(FracOf(rep_frame[i].count), rep_frame[i].mean)
          /\ 0 < rep_scores[i].score.n
          /\ rep_scores[i].score.n < rep_scores[i].score.d

\* The messages of an actor that arrived before a message.
EarlierOf(x) == {y \in proc_done : y.data.actor = x.data.actor /\ y.id < x.id}

\* The greeting of a message and the greeting of the first message of its actor.
Greeting(x) == x.data.raw[1].text

OriginalGreeting(x) ==
    IF EarlierOf(x) = {} THEN Greeting(x)
    ELSE Greeting(CHOOSE y \in EarlierOf(x) : \A z \in EarlierOf(x) : y.id <= z.id)

\* The earlier messages of the actor with another greeting than the first.
DriftBefore(x) == {y \in EarlierOf(x) : Greeting(y) # OriginalGreeting(x)}

\* A message was scored 1 for the Mandatory field and persisted.
ScoredOne(x) ==
    /\ x.id \in db_message
    /\ \E e \in db_event :
          /\ e.message_id = x.id
          /\ \E a \in db_anomaly :
                /\ a.event_id = e.event_id
                /\ a.field_id = 1
                /\ FracEq(a.score, FracOf(1))

\* A message was scored 0: nothing was written for it.
ScoredZero(x) ==
    /\ x.id \notin db_message
    /\ \A e \in db_event : e.message_id # x.id

\* C23: end to end for a mandatory field, however the messages are split
\* into batches: the first message of an actor scores 1 and is persisted as
\* Message, Event and Anomaly; while the actor sends the same value each
\* later message scores 0 and writes no Event; the first message with a
\* different value scores 1; and the messages with the original value that
\* follow it still score 0.
C23_DriftScenario ==
    \A x \in proc_done :
        /\ EarlierOf(x) = {} => ScoredOne(x)
        /\ (EarlierOf(x) # {} /\ DriftBefore(x) = {} /\ Greeting(x) = OriginalGreeting(x))
               => ScoredZero(x)
        /\ (DriftBefore(x) = {} /\ Greeting(x) # OriginalGreeting(x)) => ScoredOne(x)
        /\ (Cardinality(DriftBefore(x)) = 1 /\ Greeting(x) = OriginalGreeting(x))
               => ScoredZero(x)

\* An actor sent a greeting twice, then another greeting, then the first
\* greeting again, and all four messages have been processed.
C23_Witness ==
    \E x \in proc_done :
        /\ Cardinality(EarlierOf(x)) = 3
        /\ Cardinality(DriftBefore(x)) = 1
        /\ Greeting(x) = OriginalGreeting(x)
        /\ \E y \in DriftBefore(x) : y.id = x.id - 1 /\ ScoredOne(y)
        /\ ScoredZero(x)

\* The distinct messages of the values that carry a (field_id, actor_id, value).
Carrying(values, x) ==
    {values[i].message_id : i \in {j \in 1..Len(values) :
                                      /\ values[j].field_id = x.field_id
                                      /\ values[j].actor_id = x.actor_id
                                      /\ values[j].value = x.value}}

\* Two rows have the same (field_id, actor_id, value).
SameKey(x, y) ==
    /\ x.field_id = y.field_id
    /\ x.actor_id = y.actor_id
    /\ x.value = y.value

\* C24: update_feature_count(values, features): the count of the feature of
\* each (field_id, actor_id, value) of the values grows by the number of
\* distinct message_ids that carry it; a triple that has no feature is
\* appended after the existing rows with feature_id 0 and that number as
\* its count; the features whose triple is not in the values are returned
\* unchanged; the existing rows keep their feature_id and their order.
C24_UpdateFeatureCount ==
    (fn_pc = "update_feature_count") =>
        LET values == fn_args.values
            features == fn_args.features
            old == Len(features)
        IN  /\ Len(fn_result) >= old
            /\ \A i \in 1..old :
                  /\ fn_result[i].feature_id = features[i].feature_id
                  /\ SameKey(fn_result[i], features[i])
                  /\ fn_result[i].count
                        = features[i].count + Cardinality(Carrying(values, features[i]))
            /\ \A j \in (old + 1)..Len(fn_result) :
                  /\ fn_result[j].feature_id = 0
                  /\ \A i \in 1..old : ~SameKey(fn_result[j], features[i])
                  /\ \A k \in (old + 1)..Len(fn_result) :
                        SameKey(fn_result[j], fn_result[k]) => j = k
                  /\ Carrying(values, fn_result[j]) # {}
                  /\ fn_result[j].count = Cardinality(Carrying(values, fn_result[j]))
            /\ \A n \in 1..Len(values) : \E j \in 1..Len(fn_result) :
                  SameKey(values[n], fn_result[j])

\* The call of the test: one of the values raises the count of the second
\* feature, the other has no feature and is appended, and the first feature
\* is returned as it was.
C24_Witness ==
    /\ fn_pc = "update_feature_count"
    /\ Len(fn_args.features) = 2
    /\ Len(fn_args.values) = 2
    /\ Len(fn_result) = 3
    /\ fn_result[1] = fn_args.features[1]
    /\ fn_result[2].count = fn_args.features[2].count + 1
    /\ fn_result[3].feature_id = 0
    /\ fn_result[3].count = 1

RECURSIVE IntPow(_, _)
IntPow(b, k) == IF k = 0 THEN 1 ELSE b * IntPow(b, k - 1)

RECURSIVE SumTenths(_, _)
\* The sum, in tenths, of the scores of the rows at the positions S.
SumTenths(rows, S) ==
    IF S = {} THEN 0
    ELSE LET i == CHOOSE j \in S : TRUE
         IN  rows[i].score.n + SumTenths(rows, S \ {i})

\* mean(score) - weight * (1 - decay)^(count - 1) >= threshold for the rows of
\* an actor, with every term brought to the common denominator
\* 10 * count * weight.d * decay.d^(count - 1) * threshold.d.
PassesThreshold(rows, a, weight, decay, threshold) ==
    LET S == {i \in 1..Len(rows) : rows[i].actor_id = a}
        count == Cardinality(S)
        scale == IntPow(decay.d, count - 1)
    IN  SumTenths(rows, S) * weight.d * scale * threshold.d
          - 10 * count * weight.n * IntPow(decay.d - decay.n, count - 1) * threshold.d
        >= threshold.n * 10 * count * weight.d * scale

\* C25: ExponentialDecayAnalyzer.analyze keeps exactly the rows of the actors
\* whose weighted_mean = mean(score) - weight * (1 - decay)^(count - 1) is at
\* least the threshold, count being the number of anomaly rows of the actor;
\* the rows of an actor are kept or dropped together, in their order and
\* with the columns of the input.  With weight 0.2, decay 0.1 and threshold
\* 0.5 a single anomaly of score 0.9 passes and a single one of 0.6 fails.
C25_ExponentialDecay ==
    (fn_pc = "analyze") =>
        LET rows == fn_args.anomalies
            Kept == {i \in 1..Len(rows) :
                        PassesThreshold(rows, rows[i].actor_id, fn_args.weight,
                                        fn_args.decay, fn_args.threshold)}
            Single(i) == \A j \in 1..Len(rows) : rows[j].actor_id = rows[i].actor_id => j = i
            Defaults == /\ fn_args.weight = Frac(1, 5)
                        /\ fn_args.decay = Frac(1, 10)
                        /\ fn_args.threshold = Frac(1, 2)
        IN  /\ Len(fn_result) = Cardinality(Kept)
            /\ \A k \in 1..Len(fn_result) :
                  /\ fn_result[k].event_id \in Kept
                  /\ fn_result[k] = rows[fn_result[k].event_id]
                  /\ \A j \in 1..(k - 1) : fn_result[j].event_id < fn_result[k].event_id
            /\ \A i \in 1..Len(rows) :
                  (Defaults /\ Single(i)) =>
                      /\ rows[i].score = Frac(9, 10) => i \in Kept
                      /\ rows[i].score = Frac(6, 10) => i \notin Kept

\* With the default settings one actor has a single anomaly of score 0.9,
\* which is returned, and another a single anomaly of score 0.6, which is not.
C25_Witness ==
    /\ fn_pc = "analyze"
    /\ fn_args.weight = Frac(1, 5)
    /\ fn_args.decay = Frac(1, 10)
    /\ fn_args.threshold = Frac(1, 2)
    /\ Len(fn_args.anomalies) = 2
    /\ fn_args.anomalies[1].score = Frac(6, 10)
    /\ fn_args.anomalies[2].score = Frac(9, 10)
    /\ fn_args.anomalies[1].actor_id # fn_args.anomalies[2].actor_id
    /\ fn_result = <<fn_args.anomalies[2]>>

RECURSIVE AllRowLines(_, _)
\* The rows of the deliveries from the k-th on, in the order of delivery.
AllRowLines(deliveries, k) ==
    IF k > Len(deliveries) THEN <<>>
    ELSE RowLines(k, deliveries[k]) \o AllRowLines(deliveries, k + 1)

\* C26: CSVShipper.ship writes the header row iff the file is absent or empty
\* when it is called, and always appends; after any sequence of deliveries
\* to one file the header occurs exactly once, as the first line, and the
\* rows of all the deliveries follow it in the order of delivery.
C26_HeaderOnce ==
    /\ [][(csv_shipped' # csv_shipped) =>
             LET old == csv_file.lines
                 new == csv_file'.lines
                 added == SubSeq(new, Len(old) + 1, Len(new))
             IN  /\ csv_file'.exists
                 /\ Len(new) >= Len(old)
                 /\ SubSeq(new, 1, Len(old)) = old
                 /\ (~csv_file.exists \/ old = <<>>)
                       <=> (added # <<>> /\ Head(added) = HeaderLine)]_vars
    /\ []((/\ csv_shipped # <<>>
           /\ ForeignLine \notin {csv_file.lines[i] : i \in 1..Len(csv_file.lines)})
              => csv_file = File(<<HeaderLine>> \o AllRowLines(csv_shipped, 1)))

\* Three deliveries to a file that was absent or empty, the first of them
\* without a row: the header is the first line and the rows of the other
\* two follow.
C26_Witness ==
    /\ Len(csv_shipped) = 3
    /\ csv_shipped[1] = 0
    /\ csv_shipped[2] > 0
    /\ csv_shipped[3] > 0
    /\ csv_file.exists
    /\ Head(csv_file.lines) = HeaderLine
    /\ Len(csv_file.lines) = 1 + csv_shipped[2] + csv_shipped[3]

\* A JSON value that stands for "nothing is selected".
Nothing == [type |-> "nothing"]

\* The decimal index a string of a field stands for in a list of n elements:
\* the position, from 1, of the element it selects, or 0 when the string is
\* no numeral or the index is out of the range of the list.  A numeral with
\* a minus sign counts from the end of the list, as the list of the code does.
Position(key, n) ==
    LET front == CASE key = "0" -> 1 [] key = "1" -> 2 [] key = "2" -> 3 [] OTHER -> 0
        back == CASE key = "-1" -> n [] key = "-2" -> n - 1 [] OTHER -> 0
    IN  IF front > 0 THEN (IF front <= n THEN front ELSE 0)
        ELSE IF back > 0 THEN back ELSE 0

RECURSIVE Select(_, _, _)
\* What the strings of a field from the k-th on select in a JSON value.
Select(data, field, k) ==
    IF k > Len(field) THEN data
    ELSE IF data.type = "dict"
    THEN IF field[k] \in DOMAIN data.entries
         THEN Select(data.entries[field[k]], field, k + 1)
         ELSE Nothing
    ELSE IF data.type = "list"
    THEN IF Position(field[k], Len(data.elems)) > 0
         THEN Select(data.elems[Position(field[k], Len(data.elems))], field, k + 1)
         ELSE Nothing
    ELSE Nothing

\* C27: get(data, path): the empty path returns data itself; each string of
\* the path selects a key of a dict or, in a list, the element at that
\* decimal index; a missing key, a list index that is no numeral or is out of
\* range, and a path that is not empty applied to a primitive raise KeyError,
\* and no other exception is raised.
C27_GetSelects ==
    (fn_pc = "get") =>
        LET selected == Select(fn_args.data, fn_args.field, 1)
        IN  /\ fn_args.field = <<>> => fn_result = Returned(fn_args.data)
            /\ fn_result.raised \in {"", "KeyError"}
            /\ selected # Nothing => fn_result = Returned(selected)
            /\ selected = Nothing => fn_result.raised = "KeyError"

\* A path of three strings: a key of a dict, an index into the list under
\* it, and a key applied to the primitive found there, which raises KeyError.
C27_Witness ==
    /\ fn_pc = "get"
    /\ Len(fn_args.field) = 3
    /\ fn_args.data.type = "dict"
    /\ fn_args.field[1] \in DOMAIN fn_args.data.entries
    /\ fn_args.data.entries[fn_args.field[1]].type = "list"
    /\ fn_args.field[2] = "1"
    /\ Len(fn_args.data.entries[fn_args.field[1]].elems) = 2
    /\ fn_result.raised = "KeyError"

\* The investigations of the group that are not assigned.
Unassigned == {k \in DOMAIN investigations : ~investigations[k].is_assigned}

\* C28: an investigator inserts a new investigation only when the most
\* recent investigation of its group is assigned or the group has none; so
\* in every committed state at most one investigation of the group is not
\* assigned, and it is the one with the highest index; and the start of the
\* window of the new investigation is computed only from events whose link
\* to the previous investigation has been committed.
C28_ClaimAfterAssigned ==
    /\ [][\A i \in Investigators :
             (pc[i] = "insert" /\ pc'[i] \in {"first_event", "loop_anomalies"}) =>
                 /\ LatestInvestigation = NoInvestigation \/ LatestInvestigation.is_assigned
                 /\ (pc'[i] = "first_event") <=> (LatestInvestigation = NoInvestigation)
                 /\ (pc'[i] = "loop_anomalies") =>
                       /\ previous[i].id = LatestInvestigation.id
                       /\ start'[i] \in EventsOf(LatestInvestigation.id)]_vars
    /\ [](/\ Cardinality(Unassigned) <= 1
          /\ \A k \in Unassigned : k = Len(investigations)
          /\ \A k \in Unassigned : \A j \in DOMAIN investigations :
                investigations[j].index <= investigations[k].index)

\* B waits for the second investigation of the group, which A inserted
\* after its first one was assigned and whose window starts at an event
\* linked to the first.
C28_Witness ==
    /\ pc["B"] = "prev_wait"
    /\ Len(investigations) = 2
    /\ investigations[1].is_assigned
    /\ ~investigations[2].is_assigned
    /\ investigations[2].created_by = "A"
    /\ pc["A"] = "loop_anomalies"
    /\ start["A"] \in EventsOf(investigations[1].id)

\* The events linked to the investigation with this id.
LinksOf(id) == {l \in investigation_event : l[1] = id}

\* C29: is_assigned and the links of the investigation to the events of its
\* anomalies commit together: in every committed state an investigation is
\* assigned iff at least one event is linked to it; the step that assigns it
\* adds one link per event of its anomalies and no other link; and an
\* assigned investigation stays in the store and stays assigned.
C29_ClaimAtomic ==
    /\ [](\A k \in DOMAIN investigations :
             investigations[k].is_assigned <=> LinksOf(investigations[k].id) # {})
    /\ [][\A k \in DOMAIN investigations :
             LET id == investigations[k].id
                 after == {j \in DOMAIN investigations' : investigations'[j].id = id}
             IN  /\ investigations[k].is_assigned =>
                       /\ after # {}
                       /\ \A j \in after : investigations'[j].is_assigned
                       /\ LinksOf(id)' = LinksOf(id)
                 /\ \A j \in after :
                       (~investigations[k].is_assigned /\ investigations'[j].is_assigned) =>
                           \E i \in Investigators :
                               /\ pc[i] = "assign" /\ pc'[i] = "emit"
                               /\ investigation[i] = id
                               /\ anomalies[i] # {}
                               /\ LinksOf(id)' = {<<id, e>> : e \in anomalies[i]}]_vars

\* The second investigation of the group has just been assigned with the
\* event of its window linked to it, while the first keeps its own link.
C29_Witness ==
    /\ Len(investigations) >= 2
    /\ investigations[1].is_assigned
    /\ investigations[2].is_assigned
    /\ LinksOf(investigations[1].id) # {}
    /\ LinksOf(investigations[2].id) # {}
    /\ LinksOf(investigations[2].id) \cap LinksOf(investigations[1].id) = {}
    /\ \E i \in Investigators : pc[i] = "emit" /\ investigation[i] = investigations[2].id

\* C30: an investigator that leaves the put loop of run for an assigned
\* investigation has put exactly one MALICIOUS_ACTIVITY entry for it on the
\* curator queue, an entry is put only for an investigation that is already
\* assigned, and the investigation deleted for its empty window is not on
\* the queue.
C30_AssignedIsEnqueued ==
    /\ [][\A i \in Investigators :
             /\ (pc[i] = "emit" /\ pc'[i] = "run_loop") =>
                   curator_queue' = Append(curator_queue, MaliciousActivity(investigation[i]))
             /\ (pc[i] = "empty_delete" /\ pc'[i] = "run_loop") =>
                   \A n \in DOMAIN curator_queue' : curator_queue'[n].data # investigation[i]]_vars
    /\ [](\A n \in DOMAIN curator_queue :
             curator_queue[n].kind = "MALICIOUS_ACTIVITY" =>
                 \E k \in DOMAIN investigations :
                     /\ investigations[k].id = curator_queue[n].data
                     /\ investigations[k].is_assigned)

\* ------------------------------------------------------------------------
\* Properties of the pipeline's timer
\* ------------------------------------------------------------------------

\* The message is in the buffer of the coordinator.
Buffered(m) == \E n \in DOMAIN messages : messages[n] = m

\* The message is in the snapshot of a process cycle that has run.
Processed(m) == \E n \in DOMAIN processed : processed[n] = m

\* The messages the transports send in a run.
AllMessages == {<<t, n>> : t \in Transports, n \in 1..MaxMessages}

\* The timer the coordinator holds is alive and captured the current id.
TimerArmed == TimerAlive(timer) /\ timers[timer].process_id = process_id

\* A process cycle is due: the flag is set, the buffer has reached
\* queue_size, or the main loop was left and the final cycle is ahead.
CycleDue == timeout \/ Len(messages) >= queue_size \/ cpc \in {"exit", "join", "final"}

\* C31: whenever a message is buffered, a timer armed with the current
\* process id is alive or a process cycle is already due; and every buffered
\* message is eventually in the snapshot of a process cycle, also when no
\* transport sends anything further.
C31_BufferedEventuallyProcessed ==
    /\ [](messages # <<>> => TimerArmed \/ CycleDue)
    /\ \A m \in AllMessages : Buffered(m) ~> Processed(m)

\* C32: a timer armed under a process id that a later cycle has replaced has
\* no effect: under every interleaving of the timer thread with the
\* coordinator, the timeout flag is set only by a timer whose captured id is
\* the current process id, and the flag a timer has set starts a process
\* cycle only while that id is current.
C32_StaleTimerNoEffect ==
    [][\A k \in Timers :
          (timers[k].state = "set" /\ timers'[k].state = "put") =>
              timers[k].process_id = process_id]_vars

\* C33: after handling an entry the coordinator runs a process cycle iff
\* the timeout flag is set or the buffer holds at least queue_size messages;
\* the cycle takes the whole buffer and leaves the flag cleared; and
\* whenever the coordinator blocks on the queue the buffer holds fewer than
\* queue_size messages.
C33_CycleIffDue ==
    /\ [][(cpc = "after_handle" /\ cpc' = "loop") =>
            /\ (process_id' # process_id) <=> (timeout \/ Len(messages) >= queue_size)
            /\ (process_id' # process_id) =>
                  /\ processed' = processed \o messages
                  /\ messages' = <<>>
                  /\ ~timeout'
            /\ (process_id' = process_id) => UNCHANGED <<messages, processed, timeout>>]_vars
    /\ [](cpc = "get" => Len(messages) < queue_size)

\* The coordinator blocks on the queue after a cycle that the timeout flag
\* triggered for a single message with queue_size 2, and after a later
\* message was buffered without a cycle.
C33_Witness ==
    /\ cpc = "get"
    /\ queue_size = 2
    /\ Len(processed) = 1
    /\ Len(messages) = 1
    /\ ~timeout

\* ------------------------------------------------------------------------
\* Properties of the transports
\* ------------------------------------------------------------------------

\* The entry is one that transport t puts on the pipeline queue.
EntryOf(e, t) == e.source = "TRANSPORT" /\ e.data[1] = t

\* The step puts one entry on the pipeline queue.
Sends(e) == pipeline_queue' = Append(pipeline_queue, e)

\* C34: a transport task, whatever its class, ends by enqueuing one
\* TRANSPORT.SHUTDOWN that carries itself: the step in which the task ends is
\* the step that enqueues it, no other step enqueues a SHUTDOWN, and a task
\* that has ended enqueues nothing more, also when process() raised or the
\* shutdown flag was set while it was sending.
C34_ShutdownOnceAndLast ==
    [][\A t \in Transports :
          /\ (tpc[t] # "done" /\ tpc'[t] = "done") => Sends(TransportShutdown(t))
          /\ Sends(TransportShutdown(t)) => (tpc[t] = "send_shutdown" /\ tpc'[t] = "done")
          /\ tpc[t] = "done" =>
                /\ tpc'[t] = "done"
                /\ Len(pipeline_queue') > Len(pipeline_queue) =>
                      ~EntryOf(pipeline_queue'[Len(pipeline_queue')], t)]_vars

\* An ephemeral transport whose process() raised and an interval transport
\* that sent its message and saw the shutdown flag have both ended, and the
\* coordinator has taken the SHUTDOWN of one of them.
C34_Witness ==
    /\ tpc = [t \in Transports |-> "done"]
    /\ tkind["t1"] = "ephemeral"
    /\ tleft["t1"] = 0
    /\ \A n \in DOMAIN received : received[n][1] # "t1"
    /\ tkind["t2"] \in {"repeatable", "interval"}
    /\ \E n \in DOMAIN received : received[n][1] = "t2"
    /\ pipeline_shutdown
    /\ "t1" \notin transports

\* The timeout of a backoff without its random term.
Floor(b) == b.timeout - b.jitter

\* How many times the message is on the pipeline queue or was taken from it.
Copies(m) ==
    Cardinality({n \in DOMAIN pipeline_queue : pipeline_queue[n] = TransportMessage(m)})
        + Cardinality({n \in DOMAIN received : received[n] = m})

\* C35: Transport.send enqueues its entry at most once and never blocks on
\* the queue: a turn of its loop is always possible; it returns having put
\* the entry once, or without the entry only when the shutdown flag is set;
\* while the queue is full and the flag is clear it stays in the loop, and
\* the timeout of each retry, its random term of at most a second apart,
\* is never below the one before and above it from the second retry on.
C35_SendOnceNoBlock ==
    /\ [][\A t \in Transports :
             (tpc[t] = "send" /\ (tpc'[t] # "send" \/ backoff'[t] # backoff[t])) =>
                 /\ tpc'[t] = "sent" =>
                       \/ Sends(TransportMessage(<<t, tleft[t]>>))
                       \/ pipeline_shutdown /\ pipeline_queue' = pipeline_queue
                 /\ tpc'[t] = "send" =>
                       /\ PipelineQueueFull /\ ~pipeline_shutdown
                       /\ pipeline_queue' = pipeline_queue
                       /\ backoff'[t].attempts = backoff[t].attempts + 1
                       /\ backoff'[t].jitter \in 0..BackoffScale
                       /\ Floor(backoff'[t]) >= Floor(backoff[t])
                       /\ backoff[t].attempts >= 1 => Floor(backoff'[t]) > Floor(backoff[t])]_vars
    /\ [](\A m \in AllMessages : Copies(m) <= 1)
    /\ [](\A t \in Transports : tpc[t] = "send" => ENABLED TransportSend(t))

\* t1 has met a full queue four times in one send, the random term of its
\* latest timeout is zero, and the message of t2 is on the queue or was
\* taken from it.
C35_Witness ==
    /\ tpc["t1"] = "send"
    /\ backoff["t1"].attempts = 4
    /\ backoff["t1"].past
    /\ backoff["t1"].jitter = 0
    /\ PipelineQueueFull
    /\ ~pipeline_shutdown
    /\ Copies(<<"t2", 1>>) = 1

\* ------------------------------------------------------------------------
\* Properties of the handling of entries
\* ------------------------------------------------------------------------

\* C36: an entry of unknown source or kind is logged and skipped by the
\* pipeline coordinator, by the curator and by a shipper: the step that
\* handles it leaves the consumer's state as it was (the message buffer,
\* the transports or investigators listed, the flags, the timer, what was
\* shipped) and the consumer goes on with its loop.
C36_UnknownEntrySkipped ==
    [][/\ (cpc = "handle" /\ entry \in UnknownPipelineEntries /\ cpc' # "handle") =>
            /\ cpc' \in {"after_handle", "exit"}
            /\ UNCHANGED <<messages, transports, timeout, pipeline_shutdown, process_id,
                           timer, timers, processed, received, pipeline_queue>>
       /\ (/\ kpc = "pull" /\ curator_queue # <<>>
           /\ curator_queue' = Tail(curator_queue)
           /\ IsUnknown(Head(curator_queue), UnknownCuratorEntries)) =>
            /\ kpc' = AfterPull
            /\ UNCHANGED <<curator_investigators, shipper_queue, shipper_shutdown,
                           shutdown, kentry, kidx, shipped>>
       /\ \A s \in ShipperSet :
            (/\ spc[s] \in {"get", "drain"} /\ shipper_queue[s] # <<>>
             /\ shipper_queue'[s] = Tail(shipper_queue[s])
             /\ IsUnknown(Head(shipper_queue[s]), UnknownShipperEntries)) =>
                /\ spc'[s] = IF spc[s] = "get" THEN "loop" ELSE "drain"
                /\ UNCHANGED <<shipped, has_queue, shipper_shutdown>>]_vars

\* The coordinator has handled an entry although no message was taken, no
\* transport has shut down and no timer was started, which only an unknown
\* entry brings about, and the next entry, a message, waits on the queue.
C36_Witness ==
    /\ cpc = "after_handle"
    /\ entry = NoEntry
    /\ received = <<>>
    /\ transports = Transports
    /\ ~pipeline_shutdown
    /\ process_id = 0
    /\ pipeline_queue # <<>>
    /\ IsMessage(Head(pipeline_queue))

\* The count of the feature with the key k, 0 when the table has none.
CountOf(feature, k) ==
    IF \E x \in feature : KeyOf(x) = k
    THEN (CHOOSE x \in feature : KeyOf(x) = k).count
    ELSE 0

\* C37: the feature upserts of two cycles commute: in whatever order the
\* statements of two pipeline processes sharing the store reach their rows,
\* once both have committed the table has one feature for each key, whose
\* count is its count before plus the counts of the key in both cycles'
\* values, and at any moment it is its count before plus the counts of the
\* statements that have reached the key.
C37_UpsertsCommute ==
    fn_pc \in {"upserting", "_update_features"} =>
        /\ \A x, y \in db_feature :
              (KeyOf(x) = KeyOf(y) \/ x.feature_id = y.feature_id) => x = y
        /\ \A k \in UpsertKeys :
              CountOf(db_feature, k)
                  = CountOf(fn_args.prior, k)
                    + (IF fn_result.committed[1] \/ k \in fn_result.locked[1]
                       THEN GroupCount(fn_args.values[1], k.field_id, k.actor_id, k.value)
                       ELSE 0)
                    + (IF fn_result.committed[2] \/ k \in fn_result.locked[2]
                       THEN GroupCount(fn_args.values[2], k.field_id, k.actor_id, k.value)
                       ELSE 0)

\* Both cycles have committed after their statements took turns (the first
\* process, the second, the first again, and the second last, after it had
\* waited for a row the first held), and a feature that was there before
\* has been counted up by both.
C37_Witness ==
    /\ fn_pc = "_update_features"
    /\ fn_result.order = <<1, 2, 1, 2>>
    /\ \E k \in UpsertKeys :
          /\ CountOf(fn_args.prior, k) > 0
          /\ GroupCount(fn_args.values[1], k.field_id, k.actor_id, k.value) > 0
          /\ GroupCount(fn_args.values[2], k.field_id, k.actor_id, k.value) > 0
          /\ CountOf(db_feature, k) >= CountOf(fn_args.prior, k) + 2

\* The assigned investigations of the group, by their place in the order of
\* created_at.
AssignedPlaces == {k \in DOMAIN investigations : investigations[k].is_assigned}

\* C38: no event is linked to two investigations of the group: the events
\* of an assigned investigation all lie strictly after the events of every
\* assigned investigation before it, and the events an investigator is
\* about to link to its investigation lie strictly after every event that
\* is linked already.
C38_EventSetsDisjoint ==
    /\ \A l1, l2 \in investigation_event : l1[2] = l2[2] => l1[1] = l2[1]
    /\ \A j, k \in AssignedPlaces :
          j < k => \A e \in EventsOf(investigations[j].id) :
                      \A f \in EventsOf(investigations[k].id) : e < f
    /\ \A i \in Investigators :
          pc[i] = "assign" =>
              \A e \in anomalies[i] : \A l \in investigation_event : l[2] < e

\* Two investigators have each claimed an investigation, the second after
\* the first, and each investigation has its own event.
C38_Witness ==
    /\ Len(investigations) = 2
    /\ investigations[1].created_by = "A"
    /\ investigations[2].created_by = "B"
    /\ investigations[1].is_assigned
    /\ investigations[2].is_assigned
    /\ \E e, f \in events :
          /\ e < f
          /\ EventsOf(investigations[1].id) = {e}
          /\ EventsOf(investigations[2].id) = {f}

\* The message of the completed cycles that has this id.
DoneMessage(id) == CHOOSE m \in proc_done : m.id = id

\* C39: every Anomaly in the store has the feature_id of the one Feature in
\* the store whose field_id is the anomaly's, whose actor_id is that of the
\* anomaly's event and whose value is the value of that field in the
\* event's message; no Feature and no Anomaly in the store has the
\* feature_id 0 that update_feature_count gives a new bucket.
C39_AnomalyRefersToOwnFeature ==
    /\ \A y, z \in db_feature : y.feature_id = z.feature_id => y = z
    /\ \A y \in db_feature : y.feature_id # 0
    /\ \A x \in db_anomaly :
          /\ x.feature_id # 0
          /\ \E e \in db_event : \E y \in db_feature :
                /\ e.event_id = x.event_id
                /\ \E m \in proc_done : m.id = e.message_id
                /\ y.feature_id = x.feature_id
                /\ y.field_id = x.field_id
                /\ y.actor_id = e.actor_id
                /\ y.value = FieldValue(DoneMessage(e.message_id).data.raw[x.field_id])

\* A cycle has stored an anomaly for a value it saw for the first time,
\* whose feature it inserted itself, next to an older feature of the same
\* field and actor.
C39_Witness ==
    /\ proc_pc = "idle"
    /\ \E x \in db_anomaly : \E y, z \in db_feature :
          /\ y.feature_id = x.feature_id
          /\ y.count = 1
          /\ z.field_id = y.field_id
          /\ z.actor_id = y.actor_id
          /\ z.value # y.value
          /\ z.feature_id < y.feature_id

\* C40: the queue of every shipper exists before the curator first accesses
\* it: whenever the curator, in _ship with the investigator shutdown flag not
\* set, leaves its turn for a shipper without having been interrupted, that
\* shipper has created its queue and the report of the finding has been put
\* on it; and whenever the curator leaves the put of the shutdown BLIP for a
\* shipper, that shipper has created its queue and the BLIP has been put on
\* it.
C40_QueueExistsBeforeAccess ==
    [][\A s \in ShipperSet :
          /\ (/\ kpc = "ship"
              /\ Shippers[kidx] = s
              /\ ~InvestigatorShutdown
              /\ <<kpc, kidx>>' # <<kpc, kidx>>
              /\ kpc' # "shutdown")
                 => /\ has_queue[s]
                    /\ shipper_queue'[s] = Append(shipper_queue[s], EventReport(kentry))
          /\ (/\ kpc = "blip"
              /\ Shippers[kidx] = s
              /\ kpc' # "blip")
                 => /\ has_queue[s]
                    /\ shipper_queue'[s] = Append(shipper_queue[s], CuratorBlip)]_vars

====
